---- MODULE Spec2Model ----
(***************************************************************************)
(* DetailBuild: a panel ("detail") is built from a configuration by        *)
(* applying features (smiles, arcs, holes, rects, corners, edge bevels)    *)
(* to a base solid with a boolean-mesh kernel, and the kernel's single     *)
(* mesh is then split into material groups.                                *)
(*                                                                         *)
(* The model follows DetailBuilder.build() and the apply* methods of the   *)
(* feature classes step by step.  The kernel (manifold-3d) is external:    *)
(* a solid is represented by the set of provenance tags its triangles may  *)
(* carry, and the kernel's tag counter by nextID.  The feature lists of    *)
(* the configuration are read entry by entry: the entry a loop of build()  *)
(* reads next is chosen when the loop reaches it.                          *)
(***************************************************************************)
EXTENDS Integers, Sequences, FiniteSets, TLC

VARIABLES
    config,                 \* the panel descriptor {l, h, w} of DetailBuilder.config
    pc,                     \* position of build(): "new", a family name, "awaiting", "mesh", "done", "failed"
    idx,                    \* position in the current family's list (edges: 1..4)
    feature,                \* the configuration entry read last
    outcome,                \* what became of it: none, skipped, applying, applied, threw
    step,                   \* position inside the current apply*: idle, made, sealed, recorded, combined
    cutter,                 \* the cutting solid of the feature being applied
    detail,                 \* the accumulated solid (local `detail` of build)
    detailOriginalID,       \* this.detailOriginalID
    cutIDMap,               \* this.cutIDMap
    currentMaterialIndex,   \* local currentMaterialIndex of build
    edgeMaterialIndexMap,   \* local edgeMaterialIndexMap of build
    nextID,                 \* the kernel's tag counter
    rawMesh,                \* what detail.getMesh() returned
    geometry,               \* the THREE.BufferGeometry of the returned mesh
    materials,              \* the slots of the material table handed to THREE.Mesh
    entries,                \* history: how many feature entries were read
    skipped,                \* history: how many of them returned the solid unchanged
    pushLog,                \* history: <<family, idx>> of every cutIDMap.push, in order
    boolLog,                \* history: every boolean operation, in order
    temporaries,            \* the kernel objects the apply* entered last has created
    chain,                  \* the kernel objects `detail` of build() has referred to
    calls,                  \* the calls of build() on one DetailBuilder, each with its locals
    thisCutIDMap,           \* the call whose array this.cutIDMap refers to (0: none)
    viewer                  \* the viewer script: its globals `detail` and `wireframe`, the scene, its buildDetail calls

vars == <<config, pc, idx, feature, outcome, step, cutter, detail, detailOriginalID,
          cutIDMap, currentMaterialIndex, edgeMaterialIndexMap, nextID, rawMesh,
          geometry, materials, entries, skipped, pushLog, boolLog, temporaries,
          chain, calls, thisCutIDMap, viewer>>

(***************************************************************************)
(* Bounds                                                                  *)
(***************************************************************************)
\* How many feature entries a configuration holds in all: the entries of the
\* five lists plus the edge entries that are not the plain value 1.
MaxFeatures == 2

(***************************************************************************)
(* JavaScript values                                                       *)
(***************************************************************************)
\* A property that is missing from a configuration object.
undefined == -1

\* !v is false
Truthy(v) == v # undefined /\ v # 0

\* a < b and a > b: false when a is undefined (NaN)
JsLt(a, b) == a # undefined /\ a < b
JsGt(a, b) == a # undefined /\ a > b

(***************************************************************************)
(* Configuration entries                                                   *)
(***************************************************************************)
\* smile: side
SmilePool == { [side |-> s] : s \in {undefined, 2, 5} }

\* arc: side, inner
ArcPool == { [side |-> 2, inner |-> TRUE], [side |-> 5, inner |-> TRUE],
             [side |-> 5, inner |-> FALSE], [side |-> undefined, inner |-> TRUE] }

\* hole: side, diam
HolePool == { [side |-> 1, diam |-> 25], [side |-> 1, diam |-> 0],
              [side |-> 7, diam |-> 25] }

\* rect: side, width, r
RectPool == { [side |-> 1, width |-> 100, r |-> 0],
              [side |-> 3, width |-> 100, r |-> 5],
              [side |-> 1, width |-> undefined, r |-> 0] }

\* corner: type, x, y, r
CornerPool == { [type |-> undefined, x |-> 60, y |-> 60, r |-> 60],
                [type |-> 2, x |-> 60, y |-> 60, r |-> undefined],
                [type |-> 2, x |-> 0, y |-> 60, r |-> undefined],
                [type |-> 1, x |-> undefined, y |-> undefined, r |-> 60],
                [type |-> 1, x |-> undefined, y |-> undefined, r |-> undefined],
                [type |-> 3, x |-> undefined, y |-> undefined, r |-> 60],
                [type |-> 3, x |-> undefined, y |-> undefined, r |-> 0 - 5],
                [type |-> 4, x |-> 60, y |-> 60, r |-> 60] }

\* The four fixed edge names, in the order applyEdges visits them.
EdgeNames == <<"left", "right", "top", "bottom">>

\* An edge entry: the number 1 ("no processing"), or an object with type and degrees.
EdgePlain == [isObject |-> FALSE, type |-> "", degrees |-> 1]
EdgePool == { EdgePlain,
              [isObject |-> TRUE, type |-> "srez", degrees |-> 45],
              [isObject |-> TRUE, type |-> "srez", degrees |-> 0],
              [isObject |-> TRUE, type |-> "kromka", degrees |-> 45] }

\* The panel of every configuration: length l, height h, thickness w.
PanelDims == [l |-> 6, h |-> 4, w |-> 2]

(***************************************************************************)
(* build(): the order of the families                                      *)
(***************************************************************************)
\* The position after the feature at <<f, i>> returned: the next turn of the
\* same loop; applyEdges returns after the fourth edge name.  applyArch is an
\* async method and build() awaits its promise (line 64): build() is suspended
\* before the next turn of the arcs loop.
NextPos(f, i) ==
    IF f = "edges" /\ i = 4 THEN [pc |-> "mesh", idx |-> 0]
    ELSE IF f = "arcs" THEN [pc |-> "awaiting", idx |-> i + 1]
    ELSE [pc |-> f, idx |-> i + 1]

\* A kernel object (embind handle) a JavaScript variable has referred to: its
\* class, the call that returned it, and how often delete() was called on it.
KernelObject(kind, by) == [kind |-> kind, by |-> by, released |-> 0]

\* obj.delete()
Deleted(o) == [o EXCEPT !.released = @ + 1]

\* Arc.createArchManifold, lines 258-264: the profile is deleted, the extrusion
\* is returned.
createArchManifold ==
    <<Deleted(KernelObject("CrossSection", "ofPolygons")), KernelObject("Manifold", "extrude")>>

\* The kernel objects an apply* has created when its cutting solid is in place,
\* in the order of their creation; each call returns a new object and the
\* variable that held the operand is overwritten.
\* (Smile 86-105, Arc 312-324, Holes 164-176, Rect 170-213,
\*  Corner 211-221 / 248-289 / 317-322, EdgeCut 84-101)
Created(f, p) ==
    CASE f \in {"smiles", "edges"} ->
            <<Deleted(KernelObject("CrossSection", "ofPolygons")),
              KernelObject("Manifold", "extrude"), KernelObject("Manifold", "transform")>>
      [] f = "arcs" ->
            createArchManifold \o <<KernelObject("Manifold", "transform")>>
      [] f = "holes" ->
            <<KernelObject("Manifold", "cylinder"), KernelObject("Manifold", "transform")>>
      [] f = "rects" ->
            (IF p.r > 0
             THEN <<Deleted(KernelObject("CrossSection", "ofPolygons")),
                    KernelObject("Manifold", "extrude")>>
                  \o (IF p.side \in 3..6 THEN <<KernelObject("Manifold", "rotate")>>
                      ELSE <<>>)
             ELSE <<KernelObject("Manifold", "cube")>>)
            \o <<KernelObject("Manifold", "translate")>>
      [] f = "corners" /\ p.type = 1 ->
            <<Deleted(KernelObject("CrossSection", "ofPolygons")),
              KernelObject("CrossSection", "circle"),
              Deleted(KernelObject("CrossSection", "translate")),
              Deleted(KernelObject("CrossSection", "subtract")),
              KernelObject("Manifold", "extrude"), KernelObject("Manifold", "translate")>>
      [] f = "corners" /\ p.type = 2 ->
            <<Deleted(KernelObject("CrossSection", "ofPolygons")),
              KernelObject("Manifold", "extrude"), KernelObject("Manifold", "translate")>>
      [] f = "corners" /\ p.type = 3 ->
            <<KernelObject("Manifold", "cylinder"), KernelObject("Manifold", "translate")>>

NoFeature == [fam |-> "none"]

NoCutter == [fam |-> "none", idx |-> 0, id |-> 0, sealed |-> FALSE,
             materialIndex |-> 0, op |-> "none", edgeName |-> ""]

NoMesh == [vertProperties |-> <<>>, triVerts |-> <<>>, runIndex |-> <<>>,
           runOriginalID |-> <<>>]

\* The viewer script before its first buildDetail(): `detail` and `wireframe`
\* are null (0), the scene holds neither a mesh nor a line, nothing was
\* disposed of (`disposed` lists the objects in the order of their dispose()
\* calls), and params.showWireframe is true (Corner.js lines 676-683).
NoViewer == [detail |-> 0, wireframe |-> 0, scene |-> {}, disposed |-> <<>>,
             showWireframe |-> TRUE, pos |-> <<>>]

NoGeometry == [position |-> <<>>, normal |-> <<>>, index |-> <<>>, groups |-> <<>>]

Init ==
    /\ config = PanelDims
    /\ pc = "new"
    /\ idx = 0
    /\ feature = NoFeature
    /\ outcome = "none"
    /\ step = "idle"
    /\ cutter = NoCutter
    /\ detail = [tags |-> {}]
    /\ detailOriginalID = undefined
    /\ cutIDMap = <<>>
    /\ currentMaterialIndex = 0
    /\ edgeMaterialIndexMap = <<>>
    /\ nextID = 1
    /\ rawMesh = NoMesh
    /\ geometry = NoGeometry
    /\ materials = {}
    /\ entries = 0
    /\ skipped = 0
    /\ pushLog = <<>>
    /\ boolLog = <<>>
    /\ temporaries = <<>>
    /\ chain = <<>>
    /\ calls = <<>>
    /\ thisCutIDMap = 0
    /\ viewer = NoViewer

(***************************************************************************)
(* build(), lines 34-52: the shared list, the first feature material slot, *)
(* the base box and its provenance tag                                     *)
(***************************************************************************)
FirstFeatureMaterialIndex == 6

\* Variant: the index is passed on without the increment.
SameMaterialIndex(i) == i

\* build(), lines 57, 64, 71, 78, 85: currentMaterialIndex++
NextMaterialIndex(i) == i + 1

BuildStart ==
    /\ pc = "new"
    /\ cutIDMap' = <<>>
    /\ currentMaterialIndex' = FirstFeatureMaterialIndex
    \* Manifold.cube takes one kernel id, asOriginal() a fresh one
    /\ detail' = [tags |-> {nextID + 1}]
    /\ detailOriginalID' = nextID + 1
    /\ nextID' = nextID + 2
    /\ pc' = "smiles"
    /\ idx' = 1
    /\ UNCHANGED <<config, feature, outcome, step, cutter, edgeMaterialIndexMap,
                   rawMesh, geometry, materials, entries, skipped, pushLog, boolLog>>
    \* the box of line 48 is not deleted when line 51 overwrites `detail`
    /\ chain' = <<KernelObject("Manifold", "cube"), KernelObject("Manifold", "asOriginal")>>
    /\ UNCHANGED <<temporaries, calls, thisCutIDMap, viewer>>

\* Variant: the holes loop is placed before the arcs loop.
NextFamilyHolesFirst(f) ==
    CASE f = "smiles" -> "holes"
      [] f = "holes" -> "arcs"
      [] f = "arcs" -> "rects"
      [] f = "rects" -> "corners"
      [] f = "corners" -> "edges"

\* build(), lines 54-90: the step that follows the loop over a list
NextFamily(f) ==
    CASE f = "smiles" -> "arcs"
      [] f = "arcs" -> "holes"
      [] f = "holes" -> "rects"
      [] f = "rects" -> "corners"
      [] f = "corners" -> "edges"

\* Variant: a family without entries leaves a placeholder record in the list.
EndOfListWithRecord ==
    /\ pc \in {"smiles", "arcs", "holes", "rects", "corners"} /\ step = "idle"
    /\ pc' = NextFamily(pc)
    /\ idx' = IF NextFamily(pc) = "edges" THEN 0 ELSE 1
    /\ cutIDMap' = IF idx = 1
                   THEN Append(cutIDMap, [id |-> 0, type |-> "none", materialIndex |-> 0])
                   ELSE cutIDMap
    /\ UNCHANGED <<config, feature, outcome, step, cutter, detail, detailOriginalID,
                   currentMaterialIndex, edgeMaterialIndexMap, nextID,
                   rawMesh, geometry, materials, entries, skipped, pushLog, boolLog>>
    /\ UNCHANGED <<temporaries, chain, calls, thisCutIDMap, viewer>>

\* build(), lines 55-87: a list is absent, empty, or has no further entry
EndOfList ==
    /\ pc \in {"smiles", "arcs", "holes", "rects", "corners"} /\ step = "idle"
    /\ pc' = NextFamily(pc)
    /\ idx' = IF NextFamily(pc) = "edges" THEN 0 ELSE 1
    /\ UNCHANGED <<config, feature, outcome, step, cutter, detail, detailOriginalID,
                   cutIDMap, currentMaterialIndex, edgeMaterialIndexMap, nextID,
                   rawMesh, geometry, materials, entries, skipped, pushLog, boolLog>>
    /\ UNCHANGED <<temporaries, chain, calls, thisCutIDMap, viewer>>

(***************************************************************************)
(* The apply* methods.  Each either returns the accumulated solid at once  *)
(* (the feature is skipped) or builds a cutting solid.                     *)
(***************************************************************************)
\* Variant: the test that skips the feature is made after the profile was
\* extruded.
SkipAfterExtrude(f) ==
    /\ pc' = NextPos(f, idx).pc
    /\ idx' = NextPos(f, idx).idx
    /\ outcome' = "skipped"
    /\ skipped' = skipped + 1
    /\ temporaries' = <<Deleted(KernelObject("CrossSection", "ofPolygons")),
                        KernelObject("Manifold", "extrude")>>
    /\ nextID' = nextID + 1
    /\ UNCHANGED <<step, cutter>>

\* The feature returned `detailMesh` itself, before any call of the kernel:
\* build() goes on with the next one.
Skip(f) ==
    /\ pc' = NextPos(f, idx).pc
    /\ idx' = NextPos(f, idx).idx
    /\ outcome' = "skipped"
    /\ skipped' = skipped + 1
    /\ temporaries' = <<>>
    /\ UNCHANGED <<step, cutter, nextID>>

\* A cutting solid was created by the kernel (primitive or extrusion, then
\* moved into place); it carries a kernel id of its own until it is sealed.
Make(f, materialIndex, op, edgeName) ==
    /\ cutter' = [fam |-> f, idx |-> idx, id |-> nextID, sealed |-> FALSE,
                  materialIndex |-> materialIndex, op |-> op, edgeName |-> edgeName]
    /\ nextID' = nextID + 1
    /\ step' = "made"
    /\ outcome' = "applying"
    /\ UNCHANGED <<pc, idx, skipped>>

\* build(), line 64: the promise of applyArch was fulfilled and the event loop
\* runs the continuation of build()
Resume ==
    /\ pc = "awaiting"
    /\ pc' = "arcs"
    /\ UNCHANGED <<config, idx, feature, outcome, step, cutter, detail,
                   detailOriginalID, cutIDMap, currentMaterialIndex,
                   edgeMaterialIndexMap, nextID, rawMesh, geometry, materials,
                   entries, skipped, pushLog, boolLog, temporaries, chain, calls,
                   thisCutIDMap, viewer>>

\* Smile.applySmile, lines 23-105
SmileSkipped(smile) == JsLt(smile.side, 3) \/ JsGt(smile.side, 6)

ApplySmile ==
    /\ pc = "smiles" /\ step = "idle" /\ entries < MaxFeatures
    /\ \E smile \in SmilePool :
        /\ feature' = [fam |-> "smiles", p |-> smile]
        /\ IF SmileSkipped(smile)
           THEN Skip("smiles")
           ELSE /\ Make("smiles", currentMaterialIndex, "subtract", "")
                /\ temporaries' = Created("smiles", smile)
    /\ currentMaterialIndex' = NextMaterialIndex(currentMaterialIndex)
    /\ entries' = entries + 1
    /\ UNCHANGED <<config, detail, detailOriginalID, cutIDMap, edgeMaterialIndexMap,
                   rawMesh, geometry, materials, pushLog, boolLog>>
    /\ UNCHANGED <<chain, calls, thisCutIDMap, viewer>>

\* Arc.applyArch, lines 275-324
ArchSkipped(arch) == JsLt(arch.side, 3) \/ JsGt(arch.side, 6)

\* calculateArchPosition reads positions[side].x: a side that passed the range
\* test and is none of 3, 4, 5, 6 throws a TypeError.
ArchThrows(arch) == arch.side \notin {3, 4, 5, 6}

\* Variant: every arch is cut out.
ArchAlwaysSubtracted(arch) == "subtract"

\* Arc.applyArch, lines 340-346: if (inner) subtract, else add
ArchOperation(arch) == IF arch.inner THEN "subtract" ELSE "add"

ApplyArch ==
    /\ pc = "arcs" /\ step = "idle" /\ entries < MaxFeatures
    /\ \E arch \in ArcPool :
        /\ feature' = [fam |-> "arcs", p |-> arch]
        /\ IF ArchSkipped(arch)
           THEN Skip("arcs")
           ELSE IF ArchThrows(arch)
           THEN /\ pc' = "failed"
                /\ outcome' = "threw"
                \* createArchManifold already made the extrusion
                /\ nextID' = nextID + 1
                /\ temporaries' = createArchManifold
                /\ UNCHANGED <<idx, step, cutter, skipped>>
           ELSE /\ Make("arcs", currentMaterialIndex, ArchOperation(arch), "")
                /\ temporaries' = Created("arcs", arch)
    /\ currentMaterialIndex' = NextMaterialIndex(currentMaterialIndex)
    /\ entries' = entries + 1
    /\ UNCHANGED <<config, detail, detailOriginalID, cutIDMap, edgeMaterialIndexMap,
                   rawMesh, geometry, materials, pushLog, boolLog>>
    /\ UNCHANGED <<chain, calls, thisCutIDMap, viewer>>

\* Holes.applyHole, lines 156-176: no parameter is tested
ApplyHole ==
    /\ pc = "holes" /\ step = "idle" /\ entries < MaxFeatures
    /\ \E hole \in HolePool :
        /\ feature' = [fam |-> "holes", p |-> hole]
        /\ Make("holes", currentMaterialIndex, "subtract", "")
        /\ temporaries' = Created("holes", hole)
    /\ currentMaterialIndex' = NextMaterialIndex(currentMaterialIndex)
    /\ entries' = entries + 1
    /\ UNCHANGED <<config, detail, detailOriginalID, cutIDMap, edgeMaterialIndexMap,
                   rawMesh, geometry, materials, pushLog, boolLog>>
    /\ UNCHANGED <<chain, calls, thisCutIDMap, viewer>>

\* Rect.applyRect, lines 131-213: no parameter is tested
ApplyRect ==
    /\ pc = "rects" /\ step = "idle" /\ entries < MaxFeatures
    /\ \E rect \in RectPool :
        /\ feature' = [fam |-> "rects", p |-> rect]
        /\ Make("rects", currentMaterialIndex, "subtract", "")
        /\ temporaries' = Created("rects", rect)
    /\ currentMaterialIndex' = NextMaterialIndex(currentMaterialIndex)
    /\ entries' = entries + 1
    /\ UNCHANGED <<config, detail, detailOriginalID, cutIDMap, edgeMaterialIndexMap,
                   rawMesh, geometry, materials, pushLog, boolLog>>
    /\ UNCHANGED <<chain, calls, thisCutIDMap, viewer>>

\* Corner.applyCorner, lines 49-56, 242-244, 311-312, 343
CornerSkipped(corner) ==
    \/ ~Truthy(corner.type)
    \/ corner.type = 2 /\ (~Truthy(corner.x) \/ ~Truthy(corner.y))
    \/ corner.type = 1 /\ ~Truthy(corner.r)
    \/ corner.type = 3 /\ ~Truthy(corner.r)
    \/ corner.type \notin {1, 2, 3}

ApplyCorner ==
    /\ pc = "corners" /\ step = "idle" /\ entries < MaxFeatures
    /\ \E corner \in CornerPool :
        /\ feature' = [fam |-> "corners", p |-> corner]
        /\ IF CornerSkipped(corner)
           THEN Skip("corners")
           ELSE /\ Make("corners", currentMaterialIndex, "subtract", "")
                /\ temporaries' = Created("corners", corner)
    /\ currentMaterialIndex' = NextMaterialIndex(currentMaterialIndex)
    /\ entries' = entries + 1
    /\ UNCHANGED <<config, detail, detailOriginalID, cutIDMap, edgeMaterialIndexMap,
                   rawMesh, geometry, materials, pushLog, boolLog>>
    /\ UNCHANGED <<chain, calls, thisCutIDMap, viewer>>

\* build(), lines 90-108: when the configuration has an edges object, the edges
\* step hands out four material slots and calls applyEdges
EdgesBegin ==
    /\ pc = "edges" /\ idx = 0
    /\ \E present \in BOOLEAN :
        IF present
        THEN /\ edgeMaterialIndexMap' =
                    [left |-> currentMaterialIndex, right |-> currentMaterialIndex + 1,
                     top |-> currentMaterialIndex + 2, bottom |-> currentMaterialIndex + 3]
             /\ currentMaterialIndex' = currentMaterialIndex + 4
             /\ idx' = 1
             /\ pc' = pc
        ELSE /\ pc' = "mesh"
             /\ UNCHANGED <<idx, edgeMaterialIndexMap, currentMaterialIndex>>
    /\ UNCHANGED <<config, feature, outcome, step, cutter, detail, detailOriginalID,
                   cutIDMap, nextID, rawMesh, geometry, materials, entries, skipped,
                   pushLog, boolLog>>
    /\ UNCHANGED <<temporaries, chain, calls, thisCutIDMap, viewer>>

\* EdgeCut.applyEdges, lines 32-33: an edge object that is no bevel with an angle
EdgeSkipped(edge) == edge.type # "srez" \/ ~Truthy(edge.degrees)

\* EdgeCut.applyEdges, lines 29-38, and EdgeCut.applyEdgeSrez, lines 53-101.
\* An edge that is no object (absent, or the value 1) is no feature entry.
ApplyEdge ==
    /\ pc = "edges" /\ idx \in 1..4 /\ step = "idle"
    /\ \E edge \in EdgePool :
        /\ feature' = [fam |-> "edges", p |-> edge]
        /\ IF ~edge.isObject
           THEN /\ pc' = NextPos("edges", idx).pc
                /\ idx' = NextPos("edges", idx).idx
                /\ outcome' = "none"
                /\ UNCHANGED <<step, cutter, nextID, skipped, entries, temporaries>>
           ELSE /\ entries < MaxFeatures
                /\ entries' = entries + 1
                /\ IF EdgeSkipped(edge)
                   THEN Skip("edges")
                   ELSE /\ Make("edges", edgeMaterialIndexMap[EdgeNames[idx]],
                                "subtract", EdgeNames[idx])
                        /\ temporaries' = Created("edges", edge)
    /\ UNCHANGED <<config, detail, detailOriginalID, cutIDMap, currentMaterialIndex,
                   edgeMaterialIndexMap, rawMesh, geometry, materials, pushLog, boolLog>>
    /\ UNCHANGED <<chain, calls, thisCutIDMap, viewer>>

(***************************************************************************)
(* The tail every apply* shares: asOriginal() and originalID(), the push   *)
(* to cutIDMap, the boolean operation, delete() and return.                *)
(* (Holes 178-194, Rect 215-232, Smile 107-122, Arc 326-351,               *)
(*  Corner 223-239 / 291-307 / 324-340, EdgeCut 103-119)                   *)
(***************************************************************************)
RecordType(f) ==
    CASE f = "smiles" -> "smile"
      [] f = "arcs" -> "arc"
      [] f = "holes" -> "hole"
      [] f = "rects" -> "rect"
      [] f = "corners" -> "corner"
      [] f = "edges" -> "edge"

\* asOriginal() gives the solid a fresh tag; originalID() reads it
Seal ==
    /\ step = "made"
    /\ cutter' = [cutter EXCEPT !.id = nextID, !.sealed = TRUE]
    /\ nextID' = nextID + 1
    /\ step' = "sealed"
    /\ UNCHANGED <<config, pc, idx, feature, outcome, detail, detailOriginalID,
                   cutIDMap, currentMaterialIndex, edgeMaterialIndexMap, rawMesh,
                   geometry, materials, entries, skipped, pushLog, boolLog>>
    \* asOriginal() returns a new kernel object; the variable is overwritten
    /\ temporaries' = Append(temporaries, KernelObject("Manifold", "asOriginal"))
    /\ UNCHANGED <<chain, calls, thisCutIDMap, viewer>>

\* Variant: originalID() is read before asOriginal(), so the record holds the
\* id the solid had when it was created.
CutInfoBeforeSeal(c) ==
    [id |-> c.id - 1, type |-> RecordType(c.fam), materialIndex |-> c.materialIndex]

CutInfo(c) ==
    [id |-> c.id, type |-> RecordType(c.fam), materialIndex |-> c.materialIndex]

\* Variant: the push to cutIDMap is left out (as in the feature classes before
\* the shared list was introduced).
RecordOmitted ==
    /\ step = "sealed"
    /\ step' = "recorded"
    /\ UNCHANGED <<config, pc, idx, feature, outcome, cutter, detail,
                   detailOriginalID, cutIDMap, currentMaterialIndex,
                   edgeMaterialIndexMap, nextID, rawMesh, geometry, materials,
                   entries, skipped, pushLog, boolLog>>
    /\ UNCHANGED <<temporaries, chain, calls, thisCutIDMap, viewer>>

Record ==
    /\ step = "sealed"
    /\ cutIDMap' = Append(cutIDMap, CutInfo(cutter))
    /\ pushLog' = Append(pushLog, <<cutter.fam, cutter.idx>>)
    /\ step' = "recorded"
    /\ UNCHANGED <<config, pc, idx, feature, outcome, cutter, detail,
                   detailOriginalID, currentMaterialIndex, edgeMaterialIndexMap,
                   nextID, rawMesh, geometry, materials, entries, skipped, boolLog>>
    /\ UNCHANGED <<temporaries, chain, calls, thisCutIDMap, viewer>>

\* The kernel's boolean operation (subtract or add): every triangle of the
\* result carries the tag of one of the two operands.
Boolean(a, b) == [tags |-> a.tags \cup {b.id}]

\* Variant: the boolean operation runs straight after asOriginal(), before the
\* push to cutIDMap.
CombineBeforeRecord ==
    /\ step = "sealed"
    /\ detail' = Boolean(detail, cutter)
    /\ boolLog' = Append(boolLog, [fam |-> cutter.fam, idx |-> cutter.idx,
                                   op |-> cutter.op, id |-> cutter.id,
                                   recorded |-> { cutIDMap[i].id : i \in 1..Len(cutIDMap) }])
    /\ step' = "combined"
    /\ UNCHANGED <<config, pc, idx, feature, outcome, cutter, detailOriginalID,
                   cutIDMap, currentMaterialIndex, edgeMaterialIndexMap, nextID,
                   rawMesh, geometry, materials, entries, skipped, pushLog>>
    \* the result is a new kernel object; the operands are left as they are
    /\ chain' = Append(chain, KernelObject("Manifold", cutter.op))
    /\ UNCHANGED <<temporaries, calls, thisCutIDMap, viewer>>

Combine ==
    /\ step = "recorded"
    /\ detail' = Boolean(detail, cutter)
    /\ boolLog' = Append(boolLog, [fam |-> cutter.fam, idx |-> cutter.idx,
                                   op |-> cutter.op, id |-> cutter.id,
                                   recorded |-> { cutIDMap[i].id : i \in 1..Len(cutIDMap) }])
    /\ step' = "combined"
    /\ UNCHANGED <<config, pc, idx, feature, outcome, cutter, detailOriginalID,
                   cutIDMap, currentMaterialIndex, edgeMaterialIndexMap, nextID,
                   rawMesh, geometry, materials, entries, skipped, pushLog>>
    \* the result is a new kernel object; the operands are left as they are
    /\ chain' = Append(chain, KernelObject("Manifold", cutter.op))
    /\ UNCHANGED <<temporaries, calls, thisCutIDMap, viewer>>

\* delete() of the cutting solid, and return of the result to build()
Release ==
    /\ step = "combined"
    /\ cutter' = NoCutter
    /\ step' = "idle"
    /\ outcome' = "applied"
    /\ pc' = NextPos(pc, idx).pc
    /\ idx' = NextPos(pc, idx).idx
    /\ UNCHANGED <<config, feature, detail, detailOriginalID, cutIDMap,
                   currentMaterialIndex, edgeMaterialIndexMap, nextID, rawMesh,
                   geometry, materials, entries, skipped, pushLog, boolLog>>
    /\ temporaries' = [temporaries EXCEPT ![Len(temporaries)] = Deleted(@)]
    /\ UNCHANGED <<chain, calls, thisCutIDMap, viewer>>

(***************************************************************************)
(* The kernel's mesh of the final solid (detail.getMesh())                 *)
(***************************************************************************)
\* Manifold.cube([l, h, w], true): eight corners, vertex k at
\* (x, y, z) = (bit 2, bit 1, bit 0 of k), centred on the origin.
CubeVerts(c) ==
    [k \in 1..8 |->
        << (IF (k - 1) \div 4 = 1 THEN c.l ELSE 0 - c.l) \div 2,
           (IF ((k - 1) \div 2) % 2 = 1 THEN c.h ELSE 0 - c.h) \div 2,
           (IF (k - 1) % 2 = 1 THEN c.w ELSE 0 - c.w) \div 2 >>]

\* Its twelve triangles, counter-clockwise seen from outside.
CubeTris ==
    << <<1, 0, 4>>, <<2, 4, 0>>, <<1, 3, 0>>, <<3, 1, 5>>, <<3, 2, 0>>, <<3, 7, 2>>,
       <<5, 4, 6>>, <<5, 1, 4>>, <<6, 4, 2>>, <<7, 6, 2>>, <<7, 3, 5>>, <<7, 5, 6>> >>

\* The surface a feature leaves in the panel, as two triangles on four vertices
\* of its own (the j-th such surface of a mesh): the first is parallel to the
\* front face (a pocket's floor), the second is inclined by 45 degrees (a bevel).
PatchVerts(j) ==
    << <<2 * j - 3, 0, 0>>, <<2 * j - 2, 0, 0>>, <<2 * j - 2, 1, 0>>, <<2 * j - 3, 1, 1>> >>

PatchTris(base) == << <<base, base + 1, base + 2>>, <<base, base + 2, base + 3>> >>

RECURSIVE SortedSeq(_)
SortedSeq(S) ==
    IF S = {} THEN <<>>
    ELSE LET m == CHOOSE x \in S : \A y \in S : x <= y
         IN  <<m>> \o SortedSeq(S \ {m})

Reverse(s) == [i \in 1..Len(s) |-> s[Len(s) + 1 - i]]

\* The runs of a mesh, one per tag of `order`: the panel's run is the box, every
\* other run one patch.
RECURSIVE MeshOfRuns(_, _, _, _)
MeshOfRuns(c, panelTag, order, j) ==
    IF order = <<>> THEN [NoMesh EXCEPT !.runIndex = <<0>>]
    ELSE LET rest == MeshOfRuns(c, panelTag, Tail(order),
                                IF Head(order) = panelTag THEN j ELSE j + 1)
             nv == IF Head(order) = panelTag THEN 8 ELSE 4
             nt == IF Head(order) = panelTag THEN 12 ELSE 2
             shift(t) == <<t[1] + nv, t[2] + nv, t[3] + nv>>
         IN  [vertProperties |->
                  (IF Head(order) = panelTag THEN CubeVerts(c) ELSE PatchVerts(j))
                  \o rest.vertProperties,
              triVerts |->
                  (IF Head(order) = panelTag THEN CubeTris ELSE PatchTris(0))
                  \o [i \in 1..Len(rest.triVerts) |-> shift(rest.triVerts[i])],
              runIndex |->
                  <<0>> \o [i \in 1..Len(rest.runIndex) |-> rest.runIndex[i] + 3 * nt],
              runOriginalID |-> <<Head(order)>> \o rest.runOriginalID]

\* What getMesh() may return for a solid: every triangle carries a tag of the
\* solid; the panel's triangles lie on the faces of the box.
RawMeshes(c, solid, panelTag) ==
    { MeshOfRuns(c, panelTag, order, 1) :
        order \in UNION { { SortedSeq(S \cup {panelTag}),
                            Reverse(SortedSeq(S \cup {panelTag})) } :
                          S \in SUBSET (solid.tags \ {panelTag}) } }

(***************************************************************************)
(* DetailBuilder.createMaterials                                           *)
(***************************************************************************)
NumTriangles(mesh) == Len(mesh.triVerts)

\* lines 182-184: the while loop that moves currentRun forward
RECURSIVE AdvanceRun(_, _, _)
AdvanceRun(runIndex, currentRun, vertexIndex) ==
    IF currentRun < Len(runIndex) - 1 /\ vertexIndex >= runIndex[currentRun + 2]
    THEN AdvanceRun(runIndex, currentRun + 1, vertexIndex)
    ELSE currentRun

\* lines 178-186: the tag of every triangle, triangles 0 .. n-1 in order
RECURSIVE OriginalIDs(_, _)
OriginalIDs(mesh, n) ==
    IF n = 0 THEN [run |-> 0, ids |-> <<>>]
    ELSE LET prev == OriginalIDs(mesh, n - 1)
             currentRun == AdvanceRun(mesh.runIndex, prev.run, (n - 1) * 3)
         IN  [run |-> currentRun,
              ids |-> Append(prev.ids, mesh.runOriginalID[currentRun + 1])]

\* The keys of the Map `groups`, in insertion order (lines 188-190).
RECURSIVE GroupKeys(_)
GroupKeys(ids) ==
    IF ids = <<>> THEN <<>>
    ELSE LET prev == GroupKeys(SubSeq(ids, 1, Len(ids) - 1))
             id == ids[Len(ids)]
         IN  IF \E i \in 1..Len(prev) : prev[i] = id THEN prev ELSE Append(prev, id)

\* groups.get(originalID): the triangles of that tag, ascending (line 191)
GroupTriangles(ids, originalID) ==
    SelectSeq([i \in 1..Len(ids) |-> i - 1], LAMBDA t : ids[t + 1] = originalID)

\* originalIDToMaterialIndex (lines 195-198): a later record of the same id wins
HasCut(cutMap, originalID) == \E i \in 1..Len(cutMap) : cutMap[i].id = originalID

\* Variant: the slot is taken from the record's place in the list, 6 for the
\* first record, instead of from the record.
MaterialIndexByPlace(cutMap, originalID) ==
    5 + (CHOOSE i \in 1..Len(cutMap) : cutMap[i].id = originalID)

MaterialIndexOf(cutMap, originalID) ==
    LET last == CHOOSE i \in 1..Len(cutMap) :
                    /\ cutMap[i].id = originalID
                    /\ \A j \in (i + 1)..Len(cutMap) : cutMap[j].id # originalID
    IN  cutMap[last].materialIndex

\* lines 200-205
RECURSIVE MaxMaterialIndex(_)
MaxMaterialIndex(cutMap) ==
    IF cutMap = <<>> THEN 5
    ELSE LET m == MaxMaterialIndex(SubSeq(cutMap, 1, Len(cutMap) - 1))
             x == cutMap[Len(cutMap)].materialIndex
         IN  IF x > m THEN x ELSE m

\* lines 213-236: the cross product of two edge vectors of a triangle
TriNormal(mesh, triIdx) ==
    LET t == mesh.triVerts[triIdx + 1]
        v0 == mesh.vertProperties[t[1] + 1]
        v1 == mesh.vertProperties[t[2] + 1]
        v2 == mesh.vertProperties[t[3] + 1]
        e1 == <<v1[1] - v0[1], v1[2] - v0[2], v1[3] - v0[3]>>
        e2 == <<v2[1] - v0[1], v2[2] - v0[2], v2[3] - v0[3]>>
    IN  << e1[2] * e2[3] - e1[3] * e2[2],
           e1[3] * e2[1] - e1[1] * e2[3],
           e1[1] * e2[2] - e1[2] * e2[1] >>

\* Variant: the component is compared without dividing by the length,
\* Math.abs(c - 1) < 0.1.
NearOneUnnormalised(c, len2) == c = 1

\* Math.abs(c / len - 1) < 0.1 for a component c of a vector of squared length
\* len2: c / len > 0.9, that is c > 0 and 100 c^2 > 81 len^2.
NearOne(c, len2) == c > 0 /\ 100 * c * c > 81 * len2

\* lines 238-258: the panel face a normal points to, or undefined
FaceSlot(n) ==
    LET len2 == n[1] * n[1] + n[2] * n[2] + n[3] * n[3]
    IN  IF len2 = 0 THEN undefined
        ELSE IF NearOne(n[3], len2) THEN 0
        ELSE IF NearOne(0 - n[3], len2) THEN 1
        ELSE IF NearOne(0 - n[1], len2) THEN 2
        ELSE IF NearOne(n[1], len2) THEN 3
        ELSE IF NearOne(n[2], len2) THEN 4
        ELSE IF NearOne(0 - n[2], len2) THEN 5
        ELSE undefined

\* lines 209-266: what one group pushes to trianglesByMaterial[m];
\* slot[t + 1] is the panel face found for a panel triangle t (lines 213-258)
GroupPushes(ids, slot, cutMap, panelTag, originalID, m) ==
    IF originalID = panelTag
    THEN SelectSeq(GroupTriangles(ids, originalID), LAMBDA t : slot[t + 1] = m)
    ELSE IF HasCut(cutMap, originalID) /\ MaterialIndexOf(cutMap, originalID) = m
    THEN GroupTriangles(ids, originalID)
    ELSE <<>>

RECURSIVE PushesOfGroups(_, _, _, _, _, _)
PushesOfGroups(ids, slot, cutMap, panelTag, keys, m) ==
    IF keys = <<>> THEN <<>>
    ELSE GroupPushes(ids, slot, cutMap, panelTag, Head(keys), m)
         \o PushesOfGroups(ids, slot, cutMap, panelTag, Tail(keys), m)

\* trianglesByMaterial after the loop over the groups (lines 207-266)
TrianglesByMaterial(mesh, cutMap, panelTag) ==
    LET ids == OriginalIDs(mesh, NumTriangles(mesh)).ids
        keys == GroupKeys(ids)
        slot == [i \in 1..Len(ids) |->
                    IF ids[i] = panelTag THEN FaceSlot(TriNormal(mesh, i - 1))
                    ELSE undefined]
    IN  [m \in 0..MaxMaterialIndex(cutMap) |->
            PushesOfGroups(ids, slot, cutMap, panelTag, keys, m)]

\* Variant: a group's count is the number of its triangles, not of its indices.
RECURSIVE EmitGroupsCountingTriangles(_, _, _, _)
EmitGroupsCountingTriangles(mesh, byMaterial, materialIdx, out) ==
    IF materialIdx \notin DOMAIN byMaterial THEN out
    ELSE LET triangles == byMaterial[materialIdx]
             currentOffset == 3 * Len(out.index)
         IN  EmitGroupsCountingTriangles(mesh, byMaterial, materialIdx + 1,
                 IF Len(triangles) > 0
                 THEN [out EXCEPT
                         !.groups = Append(@, [start |-> currentOffset,
                                               count |-> Len(triangles),
                                               materialIndex |-> materialIdx]),
                         !.index = @ \o [i \in 1..Len(triangles) |->
                                            mesh.triVerts[triangles[i] + 1]]]
                 ELSE out)

\* lines 268-293: the draw groups and the re-ordered index, material by material
RECURSIVE EmitGroups(_, _, _, _)
EmitGroups(mesh, byMaterial, materialIdx, out) ==
    IF materialIdx \notin DOMAIN byMaterial THEN out
    ELSE LET triangles == byMaterial[materialIdx]
             currentOffset == 3 * Len(out.index)
         IN  EmitGroups(mesh, byMaterial, materialIdx + 1,
                 IF Len(triangles) > 0
                 THEN [out EXCEPT
                         !.groups = Append(@, [start |-> currentOffset,
                                               count |-> Len(triangles) * 3,
                                               materialIndex |-> materialIdx]),
                         !.index = @ \o [i \in 1..Len(triangles) |->
                                            mesh.triVerts[triangles[i] + 1]]]
                 ELSE out)

createMaterials(geom, mesh, cutMap, panelTag) ==
    EmitGroups(mesh, TrianglesByMaterial(mesh, cutMap, panelTag), 0,
               [geom EXCEPT !.index = <<>>, !.groups = <<>>])

(***************************************************************************)
(* DetailBuilder.manifoldToMeshWithMaterials and the end of build()        *)
(***************************************************************************)
\* lines 121-139: positions and index of the kernel's mesh
GeometryOf(mesh) ==
    [position |-> mesh.vertProperties, normal |-> <<>>, index |-> mesh.triVerts,
     groups |-> <<>>]

\* lines 148-164: the slots of the material table that hold a material.  The
\* table stays empty without config.materials3D; with it the six panel slots
\* are filled from materials3D and every record of cutIDMap writes its material
\* to its slot, which is null for a feature that names none (the default of
\* the apply* parameter).  withMaterial is the set of the records whose feature
\* names a material.
MaterialSlots(cutMap, materials3D, withMaterial) ==
    LET Writers(s) == { i \in 1..Len(cutMap) : cutMap[i].materialIndex = s }
        Last(S) == CHOOSE i \in S : \A j \in S : j <= i
    IN  IF materials3D
        THEN { s \in (0..5) \cup { cutMap[i].materialIndex : i \in 1..Len(cutMap) } :
                 IF Writers(s) = {} THEN TRUE ELSE Last(Writers(s)) \in withMaterial }
        ELSE {}

(***************************************************************************)
(* DetailBuilder.computeNormals and getConnectedFaces.  Faces are numbered *)
(* from 0 in index order; vectors are kept unnormalised, so that every     *)
(* quantity is an integer.                                                 *)
(***************************************************************************)
Sub(a, b) == <<a[1] - b[1], a[2] - b[2], a[3] - b[3]>>

Cross(a, b) ==
    <<a[2] * b[3] - a[3] * b[2], a[3] * b[1] - a[1] * b[3], a[1] * b[2] - a[2] * b[1]>>

Dot(a, b) == a[1] * b[1] + a[2] * b[2] + a[3] * b[3]

\* lines 310-324: cb x ab of face f (its direction; the code normalises it)
FaceNormal(position, index, f) ==
    LET pA == position[index[f + 1][1] + 1]
        pB == position[index[f + 1][2] + 1]
        pC == position[index[f + 1][3] + 1]
    IN  Cross(Sub(pC, pB), Sub(pA, pB))

\* lines 341, 452: the key "min_max" of an edge
EdgeKey(v0, v1) == IF v0 < v1 THEN <<v0, v1>> ELSE <<v1, v0>>

\* lines 334-338: the three edges of a face
FaceEdges(index, f) ==
    LET t == index[f + 1]
    IN  <<EdgeKey(t[1], t[2]), EdgeKey(t[2], t[3]), EdgeKey(t[3], t[1])>>

\* lines 327-347: the entries of edgeToFaces, as triples <<key, face, k>>: face
\* was pushed under key for its k-th edge
EdgeToFaces(index) ==
    { <<FaceEdges(index, f)[k], f, k>> : f \in 0..(Len(index) - 1), k \in 1..3 }

\* angleTo(...) >= 30 degrees, on the directions a and b: the cosine is at most
\* sqrt(3)/2.  A zero vector stays zero under normalize() and angleTo then
\* answers 90 degrees.
ThresholdAngleReached(a, b) ==
    \/ Dot(a, b) <= 0
    \/ 4 * Dot(a, b) * Dot(a, b) <= 3 * Dot(a, a) * Dot(b, b)

\* lines 350-361
SharpEdges(position, index) ==
    LET edgeToFaces == EdgeToFaces(index)
        first(S) == CHOOSE x \in S : \A y \in S :
                        x[2] < y[2] \/ (x[2] = y[2] /\ x[3] <= y[3])
        sharp(edgeKey) ==
            LET faces == { e \in edgeToFaces : e[1] = edgeKey }
            IN  \/ Cardinality(faces) = 1
                \/ /\ Cardinality(faces) = 2
                   /\ ThresholdAngleReached(
                          FaceNormal(position, index, first(faces)[2]),
                          FaceNormal(position, index, first(faces \ {first(faces)})[2]))
    IN  { edgeKey \in { e[1] : e \in edgeToFaces } : sharp(edgeKey) }

\* Variant: only the faces next to the start face are taken; the queue is not
\* worked off.
GrowFacesOnce(found, vertexFaces, vertexIdx, index, sharpEdges) ==
    LET open == { e \in UNION { { FaceEdges(index, f)[k] : k \in 1..3 } : f \in found } :
                    vertexIdx \in {e[1], e[2]} /\ e \notin sharpEdges }
        reached == { m \in vertexFaces \ found :
                        \E e \in open :
                            /\ \E a \in 1..3 : index[m + 1][a] = e[1]
                            /\ \E b \in 1..3 : index[m + 1][b] = e[2] }
    IN  found \cup reached

\* lines 431-478: one more round of the traversal from the faces found so far
RECURSIVE GrowFaces(_, _, _, _, _)
GrowFaces(found, vertexFaces, vertexIdx, index, sharpEdges) ==
    LET open == { e \in UNION { { FaceEdges(index, f)[k] : k \in 1..3 } : f \in found } :
                    vertexIdx \in {e[1], e[2]} /\ e \notin sharpEdges }
        reached == { m \in vertexFaces \ found :
                        \E e \in open :
                            /\ \E a \in 1..3 : index[m + 1][a] = e[1]
                            /\ \E b \in 1..3 : index[m + 1][b] = e[2] }
    IN  IF reached = {} THEN found
        ELSE GrowFaces(found \cup reached, vertexFaces, vertexIdx, index, sharpEdges)

\* Variant: the traversal looks at the faces that come after the start face
\* only.
getConnectedFacesForward(startFaceIdx, vertexIdx, index, sharpEdges) ==
    GrowFaces({startFaceIdx},
              { i \in startFaceIdx..(Len(index) - 1) :
                    \E k \in 1..3 : index[i + 1][k] = vertexIdx },
              vertexIdx, index, sharpEdges)

\* lines 414-481
getConnectedFaces(startFaceIdx, vertexIdx, index, sharpEdges) ==
    GrowFaces({startFaceIdx},
              { i \in 0..(Len(index) - 1) : \E k \in 1..3 : index[i + 1][k] = vertexIdx },
              vertexIdx, index, sharpEdges)

\* lines 370-406: the turns of the loop from face faceIdx on.  vertexMap has one
\* entry per key <<oldIdx, faceIdx>>, so a corner finds an entry only when an
\* earlier corner of its own face has the same vertex.  The normal of an output
\* vertex is kept as the set of faces whose unit normals the code sums.
RECURSIVE SplitFaces(_, _, _, _)
SplitFaces(geom, sharpEdges, faceIdx, out) ==
    IF faceIdx >= Len(geom.index) THEN out
    ELSE LET t == geom.index[faceIdx + 1]
             numVerts == Len(out.position)
             seen2 == t[2] = t[1]
             seen3 == t[3] = t[1] \/ t[3] = t[2]
             new1 == numVerts
             new2 == IF seen2 THEN new1 ELSE numVerts + 1
             new3 == IF t[3] = t[1] THEN new1
                     ELSE IF t[3] = t[2] THEN new2
                     ELSE numVerts + 1 + (IF seen2 THEN 0 ELSE 1)
             fresh == <<1>> \o (IF seen2 THEN <<>> ELSE <<2>>)
                            \o (IF seen3 THEN <<>> ELSE <<3>>)
         IN  SplitFaces(geom, sharpEdges, faceIdx + 1,
                 [position |-> out.position \o
                      [i \in 1..Len(fresh) |-> geom.position[t[fresh[i]] + 1]],
                  normal |-> out.normal \o
                      [i \in 1..Len(fresh) |->
                          getConnectedFaces(faceIdx, t[fresh[i]], geom.index, sharpEdges)],
                  index |-> Append(out.index, <<new1, new2, new3>>),
                  groups |-> out.groups])

\* Variant: the triangles are written out last to first.
computeNormalsReversed(geom) ==
    LET out == SplitFaces(geom, SharpEdges(geom.position, geom.index), 0,
                          [position |-> <<>>, normal |-> <<>>, index |-> <<>>,
                           groups |-> geom.groups])
    IN  [out EXCEPT !.index = Reverse(out.index)]

\* lines 296-412
computeNormals(geom) ==
    SplitFaces(geom, SharpEdges(geom.position, geom.index), 0,
               [position |-> <<>>, normal |-> <<>>, index |-> <<>>,
                groups |-> geom.groups])

\* lines 119-146
manifoldToMeshWithMaterials(mesh, cutMap, panelTag) ==
    computeNormals(createMaterials(GeometryOf(mesh), mesh, cutMap, panelTag))

\* build(), lines 110-116
BuildFinish ==
    /\ pc = "mesh"
    /\ \E mesh \in RawMeshes(config, detail, detailOriginalID) :
        /\ rawMesh' = mesh
        /\ geometry' = manifoldToMeshWithMaterials(mesh, cutIDMap, detailOriginalID)
    /\ \E materials3D \in BOOLEAN :
        \E withMaterial \in (IF materials3D THEN SUBSET (1..Len(cutIDMap)) ELSE {{}}) :
            materials' = MaterialSlots(cutIDMap, materials3D, withMaterial)
    /\ pc' = "done"
    /\ UNCHANGED <<config, idx, feature, outcome, step, cutter, detail,
                   detailOriginalID, cutIDMap, currentMaterialIndex,
                   edgeMaterialIndexMap, nextID, entries, skipped, pushLog, boolLog>>
    \* line 114: detail.delete()
    /\ chain' = [chain EXCEPT ![Len(chain)] = Deleted(@)]
    /\ UNCHANGED <<temporaries, calls, thisCutIDMap, viewer>>

Next ==
    \/ BuildStart
    \/ EndOfList
    \/ ApplySmile
    \/ ApplyArch
    \/ Resume
    \/ ApplyHole
    \/ ApplyRect
    \/ ApplyCorner
    \/ EdgesBegin
    \/ ApplyEdge
    \/ Seal
    \/ Record
    \/ Combine
    \/ Release
    \/ BuildFinish

Spec == Init /\ [][Next]_vars

(***************************************************************************)
(* manifoldToMeshWithMaterials on its own: the list and the panel tag are  *)
(* what a build left, and the mesh is any mesh the kernel's format allows, *)
(* with runs whose tags need not be known to the list.                     *)
(***************************************************************************)
ResolverPanelTag == 2

ResolverTags == {4, 6, 9, 11}

ResolverCutMaps ==
    { <<>>,
      <<[id |-> 4, type |-> "hole", materialIndex |-> 6]>>,
      <<[id |-> 6, type |-> "corner", materialIndex |-> 8]>>,
      <<[id |-> 4, type |-> "hole", materialIndex |-> 6],
        [id |-> 6, type |-> "corner", materialIndex |-> 7]>> }

ResolverMeshes(c, panelTag) ==
    { MeshOfRuns(c, panelTag, order, 1) :
        order \in UNION { { SortedSeq(S \cup {panelTag}),
                            Reverse(SortedSeq(S \cup {panelTag})) } :
                          S \in SUBSET ResolverTags } }

\* Triangles the kernel might return in a further run that carries the panel's
\* tag: one inclined by 45 degrees to the front face, and one of zero area.
ExtraPanelTriangles ==
    { << <<0, 0, 0>>, <<1, 0, 0>>, <<1, 1, 1>> >>,
      << <<0, 0, 0>>, <<1, 0, 0>>, <<2, 0, 0>> >> }

\* The mesh with one more run of one triangle, tagged tag.
WithRun(mesh, tag, verts) ==
    [vertProperties |-> mesh.vertProperties \o verts,
     triVerts |-> Append(mesh.triVerts,
                         <<Len(mesh.vertProperties), Len(mesh.vertProperties) + 1,
                           Len(mesh.vertProperties) + 2>>),
     runIndex |-> Append(mesh.runIndex, mesh.runIndex[Len(mesh.runIndex)] + 3),
     runOriginalID |-> Append(mesh.runOriginalID, tag)]

ResolverPanelMeshes(c, panelTag) ==
    { WithRun(MeshOfRuns(c, panelTag, SortedSeq(S \cup {panelTag}), 1), panelTag, verts) :
        S \in SUBSET ResolverTags, verts \in ExtraPanelTriangles }

InitResolver ==
    /\ config = PanelDims
    /\ pc = "mesh"
    /\ idx = 0
    /\ feature = NoFeature
    /\ outcome = "none"
    /\ step = "idle"
    /\ cutter = NoCutter
    /\ detailOriginalID = ResolverPanelTag
    /\ cutIDMap \in ResolverCutMaps
    /\ detail = [tags |-> {detailOriginalID} \cup
                          { cutIDMap[i].id : i \in 1..Len(cutIDMap) }]
    /\ currentMaterialIndex = MaxMaterialIndex(cutIDMap) + 1
    /\ edgeMaterialIndexMap = <<>>
    /\ nextID = 12
    /\ rawMesh = NoMesh
    /\ geometry = NoGeometry
    /\ materials = {}
    /\ entries = Len(cutIDMap)
    /\ skipped = 0
    /\ pushLog = <<>>
    /\ boolLog = <<>>
    /\ temporaries = <<>>
    \* the box, the sealed box and one result per recorded feature
    /\ chain = <<KernelObject("Manifold", "cube"), KernelObject("Manifold", "asOriginal")>>
               \o [k \in 1..Len(cutIDMap) |-> KernelObject("Manifold", "subtract")]
    /\ calls = <<>>
    /\ thisCutIDMap = 0
    /\ viewer = NoViewer

\* manifoldToMeshWithMaterials, lines 119-166, and the return of build()
Resolve ==
    /\ pc = "mesh"
    /\ \E mesh \in ResolverMeshes(config, detailOriginalID)
                    \cup ResolverPanelMeshes(config, detailOriginalID) :
        /\ rawMesh' = mesh
        /\ geometry' = manifoldToMeshWithMaterials(mesh, cutIDMap, detailOriginalID)
    /\ \E materials3D \in BOOLEAN :
        \E withMaterial \in (IF materials3D THEN SUBSET (1..Len(cutIDMap)) ELSE {{}}) :
            materials' = MaterialSlots(cutIDMap, materials3D, withMaterial)
    /\ pc' = "done"
    /\ UNCHANGED <<config, idx, feature, outcome, step, cutter, detail,
                   detailOriginalID, cutIDMap, currentMaterialIndex,
                   edgeMaterialIndexMap, nextID, entries, skipped, pushLog, boolLog>>
    /\ UNCHANGED <<temporaries, chain, calls, thisCutIDMap, viewer>>

NextResolver == Resolve

SpecResolver == InitResolver /\ [][NextResolver]_vars

(***************************************************************************)
(* computeNormals on its own: the geometry is any small indexed triangle   *)
(* list over a fixed set of vertices, and computeNormals is run on it, and *)
(* then again on the geometry it produced.                                 *)
(***************************************************************************)
\* How many triangles a geometry has.
MaxTriangles == 5

\* How many times computeNormals is run on a geometry.
MaxRuns == 2

\* Vertex 0 is the centre of a fan, 1 .. 5 the ring around it; 6 .. 11 carry a
\* flat quad and the triangles that stand on one of its edges.
NormalVerts ==
    << <<0, 0, 0>>,
       <<0, 1, 0>>, <<-1, 2, 0>>, <<-1, 2, -1>>, <<0, -2, -1>>, <<2, -1, 1>>,
       <<3, 0, 0>>, <<4, 0, 0>>, <<3, 1, 0>>, <<4, 1, 0>>, <<3, 0, 1>>, <<3, -1, 0>> >>

\* The fan 0 .. 4: faces 0 and 1 meet at 90 degrees on the edge 0-2, every other
\* pair of neighbours of the fan meets at less than 30 degrees.  Faces 5 and 6
\* are coplanar on the edge 6-9; faces 7 and 8 stand on the edge 6-7 of face 5,
\* face 7 at 90 degrees to it and face 8 at 180 degrees.
NormalTriangles ==
    << <<0, 1, 2>>, <<0, 2, 3>>, <<0, 3, 4>>, <<0, 4, 5>>, <<0, 5, 1>>,
       <<6, 7, 9>>, <<6, 9, 8>>, <<7, 6, 10>>, <<6, 7, 11>> >>

\* The geometry made of the triangles S of the pool, in the order of the pool.
NormalMesh(S) ==
    [vertProperties |-> NormalVerts,
     triVerts |-> [k \in 1..Cardinality(S) |-> NormalTriangles[SortedSeq(S)[k]]],
     runIndex |-> <<0, 3 * Cardinality(S)>>,
     runOriginalID |-> <<ResolverPanelTag>>]

NormalMeshes ==
    { NormalMesh(S) : S \in { T \in SUBSET (1..Len(NormalTriangles)) :
                                 Cardinality(T) \in 1..MaxTriangles } }

InitNormals ==
    /\ config = PanelDims
    /\ pc = "normals"
    /\ idx = 0
    /\ feature = NoFeature
    /\ outcome = "none"
    /\ step = "idle"
    /\ cutter = NoCutter
    /\ detail = [tags |-> {ResolverPanelTag}]
    /\ detailOriginalID = ResolverPanelTag
    /\ cutIDMap = <<>>
    /\ currentMaterialIndex = FirstFeatureMaterialIndex
    /\ edgeMaterialIndexMap = <<>>
    /\ nextID = ResolverPanelTag + 1
    /\ rawMesh \in NormalMeshes
    /\ geometry = GeometryOf(rawMesh)
    /\ materials = {}
    /\ entries = 0
    /\ skipped = 0
    /\ pushLog = <<>>
    /\ boolLog = <<>>
    /\ temporaries = <<>>
    /\ chain = <<>>
    /\ calls = <<>>
    /\ thisCutIDMap = 0
    /\ viewer = NoViewer

\* computeNormals(geometry, 30), line 146; idx counts the runs
Renormalise ==
    /\ pc = "normals" /\ idx < MaxRuns
    /\ geometry' = computeNormals(geometry)
    /\ idx' = idx + 1
    /\ UNCHANGED <<config, pc, feature, outcome, step, cutter, detail,
                   detailOriginalID, cutIDMap, currentMaterialIndex,
                   edgeMaterialIndexMap, nextID, rawMesh, materials, entries,
                   skipped, pushLog, boolLog>>
    /\ UNCHANGED <<temporaries, chain, calls, thisCutIDMap, viewer>>

NextNormals == Renormalise

SpecNormals == InitNormals /\ [][NextNormals]_vars

(***************************************************************************)
(* build() called more than once on one DetailBuilder.  JavaScript runs a  *)
(* call from one suspension point to the next without interruption, so     *)
(* each action is such a stretch of build(): up to the await of line 29,   *)
(* from there to the first await of line 64 (or to the return), and from   *)
(* one await of line 64 to the next (or to the return).  The array a call  *)
(* makes at line 34 is handed to its feature builders (lines 39-45), which *)
(* keep pushing to it; this.cutIDMap and this.detailOriginalID are fields  *)
(* of the one object and are read again by createMaterials.                *)
(***************************************************************************)
MaxCalls == 2

\* A call of build() that was not made yet.
NoCall == [pos |-> "idle", list |-> <<>>, panelTag |-> undefined, tags |-> {},
           materialIndex |-> 0, resolvedList |-> <<>>, resolvedTag |-> undefined]

InitReentrant ==
    /\ config = PanelDims
    /\ pc = "new"
    /\ idx = 0
    /\ feature = NoFeature
    /\ outcome = "none"
    /\ step = "idle"
    /\ cutter = NoCutter
    /\ detail = [tags |-> {}]
    /\ detailOriginalID = undefined
    /\ cutIDMap = <<>>
    /\ currentMaterialIndex = 0
    /\ edgeMaterialIndexMap = <<>>
    /\ nextID = 1
    /\ rawMesh = NoMesh
    /\ geometry = NoGeometry
    /\ materials = {}
    /\ entries = 0
    /\ skipped = 0
    /\ pushLog = <<>>
    /\ boolLog = <<>>
    /\ temporaries = <<>>
    /\ chain = <<>>
    /\ calls = [c \in 1..MaxCalls |-> NoCall]
    /\ thisCutIDMap = 0
    /\ viewer = NoViewer

\* An apply* of the call ran to its end: the cutting solid got the kernel ids
\* id (created) and id + 1 (sealed), its record was pushed to the array the
\* call's builders hold, and the call's `detail` is the result.
AppliedIn(call, fam, id) ==
    [call EXCEPT !.list = Append(@, CutInfo([id |-> id + 1, fam |-> fam,
                                             materialIndex |-> call.materialIndex])),
                 !.tags = @ \cup {id + 1},
                 !.materialIndex = NextMaterialIndex(@)]

\* build(), lines 28-29: the call is made and waits for initManifold()
CallBuild(c) ==
    /\ calls[c].pos = "idle"
    \* the calls are numbered in the order in which they are made
    /\ \A b \in 1..(c - 1) : calls[b].pos # "idle"
    /\ calls' = [calls EXCEPT ![c].pos = "init"]
    /\ UNCHANGED <<config, pc, idx, feature, outcome, step, cutter, detail,
                   detailOriginalID, cutIDMap, currentMaterialIndex,
                   edgeMaterialIndexMap, nextID, rawMesh, geometry, materials,
                   entries, skipped, pushLog, boolLog, temporaries, chain,
                   thisCutIDMap, viewer>>

\* build() from the arcs loop (line 62) on, for the call c whose locals are
\* `call`, with the kernel counter at id and the two fields of the object as
\* given: either one more arc is applied and line 64 suspends the call, or the
\* arcs loop ends, the later loops run (here: at most one hole) and
\* manifoldToMeshWithMaterials reads this.cutIDMap and this.detailOriginalID.
RunFromArcs(c, call, id, cutMapOf, panelTag) ==
    /\ thisCutIDMap' = cutMapOf
    /\ UNCHANGED viewer
    /\ detailOriginalID' = panelTag
    /\ \E arc \in BOOLEAN :
        IF arc
        THEN /\ Len(call.list) < MaxFeatures
             /\ calls' = [calls EXCEPT ![c] =
                            [AppliedIn(call, "arcs", id) EXCEPT !.pos = "awaiting"]]
             /\ nextID' = id + 2
        ELSE \E hole \in BOOLEAN :
             /\ hole => Len(call.list) < MaxFeatures
             /\ LET last == IF hole THEN AppliedIn(call, "holes", id) ELSE call
                    read == IF cutMapOf = c THEN last.list ELSE calls[cutMapOf].list
                IN  calls' = [calls EXCEPT ![c] =
                                [last EXCEPT !.pos = "done",
                                             !.resolvedList = read,
                                             !.resolvedTag = panelTag]]
             /\ nextID' = IF hole THEN id + 2 ELSE id
    /\ UNCHANGED <<config, pc, idx, feature, outcome, step, cutter, detail, cutIDMap,
                   currentMaterialIndex, edgeMaterialIndexMap, rawMesh, geometry,
                   materials, entries, skipped, pushLog, boolLog, temporaries, chain>>

\* build(), lines 31-62: initManifold() has answered; the call makes its array
\* and stores it in this.cutIDMap, makes and seals the base box, stores its tag
\* in this.detailOriginalID, runs the smiles loop (here: at most one smile) and
\* goes on with the arcs loop.
BeginBuild(c) ==
    /\ calls[c].pos = "init"
    /\ \E smile \in BOOLEAN :
        LET started == [NoCall EXCEPT !.pos = "running",
                                      !.panelTag = nextID + 1,
                                      !.tags = {nextID + 1},
                                      !.materialIndex = FirstFeatureMaterialIndex]
        IN  IF smile
            THEN RunFromArcs(c, AppliedIn(started, "smiles", nextID + 2), nextID + 4,
                             c, nextID + 1)
            ELSE RunFromArcs(c, started, nextID + 2, c, nextID + 1)

\* build(), line 64: the continuation after an await of applyArch
ContinueBuild(c) ==
    /\ calls[c].pos = "awaiting"
    /\ RunFromArcs(c, calls[c], nextID, thisCutIDMap, detailOriginalID)

NextReentrant ==
    \E c \in 1..MaxCalls :
        \/ CallBuild(c)
        \/ BeginBuild(c)
        \/ ContinueBuild(c)

SpecReentrant == InitReentrant /\ [][NextReentrant]_vars

(***************************************************************************)
(* Where a cutting solid is put: the numbers the hole and the edge bevel   *)
(* pass to the kernel.  Halves of configuration values occur (l / 2,       *)
(* depth / 2), so lengths named ...2 are held doubled; the tangent is held *)
(* in hundredths.                                                          *)
(***************************************************************************)
\* Holes.js: const DEPTH_MARGIN = 2
DEPTH_MARGIN == 2

PlacementPanels == { [l |-> 1000, h |-> 600, w |-> 18], [l |-> 800, h |-> 400, w |-> 16] }

\* hole: side, x, y, depth, diam, x_axis, y_axis
PlacedHolePool ==
    { [side |-> s, x |-> 35, y |-> y, depth |-> d, diam |-> 25, x_axis |-> xa, y_axis |-> ya] :
        s \in 1..6, y \in {500, 40}, d \in {15, 10}, xa \in {"0", "w"}, ya \in {"0", "h"} }

\* edge: an object of type 'srez' with its angle in degrees
PlacedEdgePool ==
    { [isObject |-> TRUE, type |-> "srez", degrees |-> a] : a \in {45, -45, 30, -30, 60} }

\* Math.abs
Abs(v) == IF v < 0 THEN 0 - v ELSE v

\* Variant: the centre is computed with the depth of the cylinder (depth plus
\* margin) in place of the depth of the hole.
HolePositionWithMargin(c, hole) ==
    LET depth == hole.depth + DEPTH_MARGIN
        fromX(dim) == IF hole.x_axis = "0" THEN 0 - dim + 2 * hole.x ELSE dim - 2 * hole.x
        fromY(dim) == IF hole.y_axis = "0" THEN 0 - dim + 2 * hole.y ELSE dim - 2 * hole.y
    IN  CASE hole.side = 1 -> <<fromX(c.l), fromY(c.h), c.w - depth>>
          [] hole.side = 2 -> <<fromX(c.l), fromY(c.h), 0 - c.w + depth>>
          [] hole.side = 3 -> <<0 - c.l + depth, fromY(c.h), fromX(c.w)>>
          [] hole.side = 4 -> <<c.l - depth, fromY(c.h), fromX(c.w)>>
          [] hole.side = 5 -> <<fromX(c.l), c.h - depth, fromY(c.w)>>
          [] hole.side = 6 -> <<fromX(c.l), 0 - c.h + depth, fromY(c.w)>>
          [] OTHER -> <<0, 0, 0>>

\* Holes.calculateHolePosition, doubled: <<2 posX, 2 posY, 2 posZ>>
calculateHolePosition(c, hole) ==
    LET depth == hole.depth
        fromX(dim) == IF hole.x_axis = "0" THEN 0 - dim + 2 * hole.x ELSE dim - 2 * hole.x
        fromY(dim) == IF hole.y_axis = "0" THEN 0 - dim + 2 * hole.y ELSE dim - 2 * hole.y
    IN  CASE hole.side = 1 -> <<fromX(c.l), fromY(c.h), c.w - depth>>
          [] hole.side = 2 -> <<fromX(c.l), fromY(c.h), 0 - c.w + depth>>
          [] hole.side = 3 -> <<0 - c.l + depth, fromY(c.h), fromX(c.w)>>
          [] hole.side = 4 -> <<c.l - depth, fromY(c.h), fromX(c.w)>>
          [] hole.side = 5 -> <<fromX(c.l), c.h - depth, fromY(c.w)>>
          [] hole.side = 6 -> <<fromX(c.l), 0 - c.h + depth, fromY(c.w)>>
          [] OTHER -> <<0, 0, 0>>

\* Holes.calculateHoleRotation: the axis the cylinder (made along Z) lies on
\* after the rotation
HoleAxis(side) ==
    CASE side \in {1, 2} -> "z"
      [] side \in {3, 4} -> "x"
      [] side \in {5, 6} -> "y"
      [] OTHER -> "z"

\* Holes.applyHole, lines 157-176: the cylinder is made centred on the origin
\* (last argument true), so the rotation leaves its centre where it is and
\* setPosition moves the centre to the computed position.
PlacedHole(c, hole) ==
    [fam |-> "holes",
     radius2 |-> hole.diam,                       \* radius = diam / 2
     height |-> hole.depth + DEPTH_MARGIN,
     axis |-> HoleAxis(hole.side),
     centre2 |-> calculateHolePosition(c, hole)]

\* EdgeCut.applyEdges, lines 22-27
edgeMap(edgeName) ==
    CASE edgeName = "left" -> 2
      [] edgeName = "right" -> 4
      [] edgeName = "top" -> 3
      [] edgeName = "bottom" -> 5

\* Variant: the two pairs of sides are exchanged.
WedgeLengthOfOtherPair(side, c) ==
    CASE side \in {2, 4} -> c.l + 20
      [] side \in {3, 5} -> c.h + 20

\* EdgeCut.applyEdgeSrez, lines 63-75
wedgeLength(side, c) ==
    CASE side \in {2, 4} -> c.h + 20
      [] side \in {3, 5} -> c.l + 20

\* Math.tan of an angle in degrees, in hundredths (rounded)
TanCenti(a) ==
    CASE a = 30 -> 58
      [] a = 45 -> 100
      [] a = 60 -> 173

\* EdgeCut.applyEdgeSrez, line 60: w / Math.tan(Math.abs(degreesRad)), in
\* hundredths
wedgeDepthCenti(w, degrees) == (w * 10000) \div TanCenti(Abs(degrees))

\* EdgeCut.calculateEdgeSrezRotation: the axis the extrusion (made along Z)
\* lies on after the rotation about X (sides 2, 4) or about Y (sides 3, 5)
WedgeAxis(side) ==
    CASE side \in {2, 4} -> "y"
      [] side \in {3, 5} -> "x"

\* EdgeCut.calculateEdgeSrezPosition, doubled
calculateEdgeSrezPosition(side, c) ==
    CASE side = 2 -> <<0 - c.l, 0, 0 - c.w>>
      [] side = 4 -> <<c.l, 0, 0 - c.w>>
      [] side = 3 -> <<0, c.h, 0 - c.w>>
      [] side = 5 -> <<0, 0 - c.h, 0 - c.w>>

\* EdgeCut.applyEdgeSrez, lines 53-101: the triangle [0, 0], [wedgeDepth, 0],
\* [wedgeDepth, wedgeThickness] extruded by wedgeLength about the origin
PlacedWedge(c, edgeName, edge) ==
    [fam |-> "edges",
     wedgeThickness |-> c.w,
     wedgeDepthCenti |-> wedgeDepthCenti(c.w, edge.degrees),
     wedgeLength |-> wedgeLength(edgeMap(edgeName), c),
     axis |-> WedgeAxis(edgeMap(edgeName)),
     position2 |-> calculateEdgeSrezPosition(edgeMap(edgeName), c)]

\* rect: side, x, y, width, height, depth, r, fullDepth, x_axis, y_axis
PlacedRectPool ==
    { [side |-> s, x |-> 35, y |-> 40, width |-> 100, height |-> 50, depth |-> d,
       r |-> r, fullDepth |-> fd, x_axis |-> xa, y_axis |-> "0"] :
        s \in 1..6, d \in {10, 7}, r \in {0, 5}, fd \in BOOLEAN, xa \in {"0", "w"} }

\* Rect.calculateRectPosition, lines 244-281; every coordinate is doubled
calculateRectPosition(c, rect) ==
    LET actualDepth == IF rect.fullDepth THEN c.w ELSE rect.depth
        fromX(dim) == IF rect.x_axis = "0" THEN 0 - dim + 2 * rect.x + rect.width
                      ELSE dim - 2 * rect.x - rect.width
        fromY(dim) == IF rect.y_axis = "0" THEN 0 - dim + 2 * rect.y + rect.height
                      ELSE dim - 2 * rect.y - rect.height
    IN  CASE rect.side = 1 -> <<fromX(c.l), fromY(c.h), c.w - actualDepth>>
          [] rect.side = 2 -> <<fromX(c.l), fromY(c.h), 0 - c.w + actualDepth>>
          [] rect.side = 3 -> <<0 - c.l + actualDepth, fromY(c.h), fromX(c.w)>>
          [] rect.side = 4 -> <<c.l - actualDepth, fromY(c.h), fromX(c.w)>>
          [] rect.side = 5 -> <<fromX(c.l), c.h - actualDepth, fromY(c.w)>>
          [] rect.side = 6 -> <<fromX(c.l), 0 - c.h + actualDepth, fromY(c.w)>>
          [] OTHER -> <<0, 0, 0>>

\* Rect.applyRect, lines 141-197: the axis that the extent `depth` of the box
\* lies on: the third dimension of the cube (or the direction of the centred
\* extrusion) for sides 1 and 2, the first (the extrusion turned about Y) for
\* 3 and 4, the second (turned about X) for 5 and 6.
RectAxis(side) ==
    CASE side \in {1, 2} -> "z"
      [] side \in {3, 4} -> "x"
      [] side \in {5, 6} -> "y"
      [] OTHER -> "z"

\* Rect.applyRect, lines 131-198: the solid is made centred on the origin and
\* translated to the computed position.
PlacedRect(c, rect) ==
    [fam |-> "rects",
     height |-> (IF rect.fullDepth THEN c.w ELSE rect.depth) + DEPTH_MARGIN,
     axis |-> RectAxis(rect.side),
     centre2 |-> calculateRectPosition(c, rect)]

InitPlacement ==
    /\ config \in PlacementPanels
    /\ pc = "placing"
    /\ \/ idx = 0 /\ \E hole \in PlacedHolePool : feature = [fam |-> "holes", p |-> hole]
       \/ idx = 0 /\ \E rect \in PlacedRectPool : feature = [fam |-> "rects", p |-> rect]
       \/ idx \in 1..4 /\ \E edge \in PlacedEdgePool : feature = [fam |-> "edges", p |-> edge]
    /\ outcome = "none"
    /\ step = "idle"
    /\ cutter = NoCutter
    /\ detail = [tags |-> {}]
    /\ detailOriginalID = undefined
    /\ cutIDMap = <<>>
    /\ currentMaterialIndex = 0
    /\ edgeMaterialIndexMap = <<>>
    /\ nextID = 1
    /\ rawMesh = NoMesh
    /\ geometry = NoGeometry
    /\ materials = {}
    /\ entries = 0
    /\ skipped = 0
    /\ pushLog = <<>>
    /\ boolLog = <<>>
    /\ temporaries = <<>>
    /\ chain = <<>>
    /\ calls = <<>>
    /\ thisCutIDMap = 0
    /\ viewer = NoViewer

\* Holes.applyHole up to the transform
PlaceHole ==
    /\ pc = "placing" /\ feature.fam = "holes"
    /\ cutter' = PlacedHole(config, feature.p)
    /\ pc' = "placed"
    /\ UNCHANGED <<config, idx, feature, outcome, step, detail, detailOriginalID,
                   cutIDMap, currentMaterialIndex, edgeMaterialIndexMap, nextID,
                   rawMesh, geometry, materials, entries, skipped, pushLog, boolLog,
                   temporaries, chain, calls, thisCutIDMap, viewer>>

\* EdgeCut.applyEdgeSrez up to the transform
PlaceWedge ==
    /\ pc = "placing" /\ feature.fam = "edges"
    /\ cutter' = PlacedWedge(config, EdgeNames[idx], feature.p)
    /\ pc' = "placed"
    /\ UNCHANGED <<config, idx, feature, outcome, step, detail, detailOriginalID,
                   cutIDMap, currentMaterialIndex, edgeMaterialIndexMap, nextID,
                   rawMesh, geometry, materials, entries, skipped, pushLog, boolLog,
                   temporaries, chain, calls, thisCutIDMap, viewer>>

\* Rect.applyRect up to the translation
PlaceRect ==
    /\ pc = "placing" /\ feature.fam = "rects"
    /\ cutter' = PlacedRect(config, feature.p)
    /\ pc' = "placed"
    /\ UNCHANGED <<config, idx, feature, outcome, step, detail, detailOriginalID,
                   cutIDMap, currentMaterialIndex, edgeMaterialIndexMap, nextID,
                   rawMesh, geometry, materials, entries, skipped, pushLog, boolLog,
                   temporaries, chain, calls, thisCutIDMap, viewer>>

NextPlacement ==
    \/ PlaceHole
    \/ PlaceRect
    \/ PlaceWedge

SpecPlacement == InitPlacement /\ [][NextPlacement]_vars

(***************************************************************************)
(* Properties                                                              *)
(***************************************************************************)
RecordIds == { cutIDMap[i].id : i \in 1..Len(cutIDMap) }

\* C1: At every point between two features of a build that has not thrown, and
\* so when build() returns, the number of CutRecords equals the number of
\* feature entries read minus the number skipped (one record per applied
\* feature, none per skipped one); and no step of the build removes or changes
\* an entry that is already in the list.
C1_OneRecordPerAppliedFeature ==
    /\ [](step = "idle" /\ pc # "failed" => Len(cutIDMap) = entries - skipped)
    /\ [][/\ Len(cutIDMap') >= Len(cutIDMap)
          /\ \A i \in 1..Len(cutIDMap) : cutIDMap'[i] = cutIDMap[i]]_vars

\* A finished build of two entries, one applied and one skipped.
C1_Witness ==
    pc = "done" /\ entries = 2 /\ skipped = 1 /\ Len(cutIDMap) = 1

\* C2: The tags in the CutRecord list are pairwise distinct, none is the panel's
\* tag, and every tag on a run of the final raw mesh is the panel's tag or the
\* tag of a CutRecord.
C2_TagsBelongToPanelOrOneRecord ==
    /\ \A i, j \in 1..Len(cutIDMap) : cutIDMap[i].id = cutIDMap[j].id => i = j
    /\ \A i \in 1..Len(cutIDMap) : cutIDMap[i].id # detailOriginalID
    /\ pc = "done" =>
          \A r \in 1..Len(rawMesh.runOriginalID) :
              rawMesh.runOriginalID[r] \in {detailOriginalID} \cup RecordIds

\* A finished build whose mesh has the panel's run and the runs of two features.
C2_Witness ==
    pc = "done" /\ Len(cutIDMap) = 2 /\ Len(rawMesh.runOriginalID) = 3

\* The place of a family in the order smiles, arcs, holes, rects, corners, edges.
GroupOrder(f) ==
    CASE f = "smiles" -> 1
      [] f = "arcs" -> 2
      [] f = "holes" -> 3
      [] f = "rects" -> 4
      [] f = "corners" -> 5
      [] f = "edges" -> 6

Earlier(f1, i1, f2, i2) ==
    GroupOrder(f1) < GroupOrder(f2) \/ (f1 = f2 /\ i1 < i2)

\* C3: Boolean operations are performed in the group order smiles, arcs, holes,
\* rects, corners, edges and in list order within a group, and the CutRecords
\* are appended in that same order: the k-th record belongs to the feature of
\* the k-th boolean operation.
C3_GroupThenListOrder ==
    /\ \A i, j \in 1..Len(boolLog) :
          i < j => Earlier(boolLog[i].fam, boolLog[i].idx, boolLog[j].fam, boolLog[j].idx)
    /\ \A i, j \in 1..Len(pushLog) :
          i < j => Earlier(pushLog[i][1], pushLog[i][2], pushLog[j][1], pushLog[j][2])
    /\ \A k \in 1..Len(boolLog) :
          /\ k <= Len(pushLog)
          /\ pushLog[k] = <<boolLog[k].fam, boolLog[k].idx>>
          /\ cutIDMap[k].id = boolLog[k].id

\* A finished build that applied two features of different groups.
C3_Witness ==
    /\ pc = "done" /\ Len(boolLog) = 2
    /\ boolLog[1].fam # boolLog[2].fam

\* What the specification calls structurally invalid parameters: a missing
\* required dimension, a radius or diameter that is not positive where one is
\* required, a face selector out of range.  (A missing value is -1.)
StructurallyInvalid(f) ==
    CASE f.fam = "smiles" -> f.p.side \notin 3..6
      [] f.fam = "arcs" -> f.p.side \notin 3..6
      [] f.fam = "holes" -> f.p.side \notin 1..6 \/ f.p.diam <= 0
      [] f.fam = "rects" -> f.p.side \notin 1..6 \/ f.p.width <= 0
      [] f.fam = "corners" ->
            \/ f.p.type \notin {1, 2, 3}
            \/ f.p.type = 2 /\ (f.p.x <= 0 \/ f.p.y <= 0)
            \/ f.p.type \in {1, 3} /\ f.p.r <= 0
      [] f.fam = "edges" -> f.p.isObject /\ f.p.type = "srez" /\ f.p.degrees <= 0
      [] OTHER -> FALSE

\* C4: In every family, a feature entry with structurally invalid parameters is
\* skipped: its apply operation returns the accumulated solid unchanged, with
\* no boolean operation, no CutRecord and no error.
C4_InvalidFeatureIsSkipped ==
    StructurallyInvalid(feature) => outcome = "skipped"

\* A hole of diameter 0 has been applied: it has a CutRecord and its boolean
\* operation has run.
C4_Witness ==
    /\ feature = [fam |-> "holes", p |-> [side |-> 1, diam |-> 0]]
    /\ outcome = "applied"
    /\ cutIDMap # <<>> /\ cutIDMap[Len(cutIDMap)].type = "hole"
    /\ Len(boolLog) = Len(cutIDMap)

\* C5: For every applied feature: the record that is appended carries the tag
\* of the sealed cutting solid and is appended before that solid's boolean
\* operation; the boolean operation uses a cutting solid that is sealed, not
\* yet released, and whose tag is in the CutRecord list; the cutting solid is
\* released only after its boolean operation.
C5_SealRecordCombineRelease ==
    /\ [](\A k \in 1..Len(boolLog) : boolLog[k].id \in boolLog[k].recorded)
    /\ [][/\ Len(cutIDMap') > Len(cutIDMap) =>
                /\ cutter.sealed
                /\ cutIDMap'[Len(cutIDMap')].id = cutter.id
                /\ cutter.id \notin detail.tags
          /\ (detail' # detail /\ pc # "new") =>
                /\ cutter.sealed
                /\ cutter.id \in RecordIds
                /\ cutter' = cutter
                /\ detail'.tags = detail.tags \cup {cutter.id}
          /\ (cutter # NoCutter /\ cutter' = NoCutter) =>
                /\ cutter.id \in detail.tags
                /\ cutter.id \in RecordIds]_vars

\* The second feature of a build between its boolean operation and its release.
C5_Witness ==
    step = "combined" /\ Len(boolLog) = 2 /\ cutter.id \in detail.tags

\* The tag of triangle i (from 0) of a raw mesh: that of the run whose range
\* of runIndex holds the triangle's first index.
RawTag(mesh, i) ==
    mesh.runOriginalID[CHOOSE r \in 1..Len(mesh.runOriginalID) :
                           mesh.runIndex[r] <= 3 * i /\ 3 * i < mesh.runIndex[r + 1]]

RawPositions(mesh, i) ==
    [k \in 1..3 |-> mesh.vertProperties[mesh.triVerts[i + 1][k] + 1]]

\* The triangles (from 1) of the final geometry that have these corner positions.
FinalFaces(geom, positions) ==
    { f \in 1..Len(geom.index) :
        [k \in 1..3 |-> geom.position[geom.index[f][k] + 1]] = positions }

\* The material indices of the draw groups whose range holds final triangle f.
GroupMaterials(geom, f) ==
    { geom.groups[g].materialIndex : g \in
        { g \in 1..Len(geom.groups) :
            /\ geom.groups[g].start <= 3 * (f - 1)
            /\ 3 * (f - 1) < geom.groups[g].start + geom.groups[g].count } }

\* C6: In the mesh a build returns, every triangle of the raw mesh whose tag is
\* the tag of a CutRecord appears once, in the draw group of exactly that
\* record's materialIndex, and that index is none of the panel slots 0-5.
C6_CutTrianglesCarryRecordedIndex ==
    pc = "done" =>
        \A i \in 0..(NumTriangles(rawMesh) - 1) : \A k \in 1..Len(cutIDMap) :
            RawTag(rawMesh, i) = cutIDMap[k].id =>
                /\ cutIDMap[k].materialIndex \notin 0..5
                /\ Cardinality(FinalFaces(geometry, RawPositions(rawMesh, i))) = 1
                /\ \A f \in FinalFaces(geometry, RawPositions(rawMesh, i)) :
                       GroupMaterials(geometry, f) = {cutIDMap[k].materialIndex}

\* A finished build in which a skipped entry preceded an applied corner whose
\* triangles are in the mesh.
C6_Witness ==
    /\ pc = "done" /\ skipped = 1 /\ Len(cutIDMap) = 1
    /\ cutIDMap[1].type = "corner" /\ cutIDMap[1].materialIndex = 7
    /\ \E r \in 1..Len(rawMesh.runOriginalID) : rawMesh.runOriginalID[r] = cutIDMap[1].id

\* C7: Every CutRecord's materialIndex is at least 6, and a feature applied
\* before another has the strictly smaller materialIndex.
C7_SlotsFromSixIncreasing ==
    /\ \A i \in 1..Len(cutIDMap) : cutIDMap[i].materialIndex >= 6
    /\ \A i, j \in 1..Len(cutIDMap) :
          i < j => cutIDMap[i].materialIndex < cutIDMap[j].materialIndex

\* A finished build that applied a hole and then a bevel.
C7_Witness ==
    /\ pc = "done" /\ Len(cutIDMap) = 2
    /\ cutIDMap[1].type = "hole" /\ cutIDMap[2].type = "edge"

\* C8: When no feature was applied, every triangle of the raw mesh appears
\* exactly once in the returned mesh, in exactly one draw group, and that
\* group's material is one of the slots 0-5.
C8_PanelOnlyPartition ==
    (pc = "done" /\ Len(boolLog) = 0) =>
        /\ Len(geometry.index) = NumTriangles(rawMesh)
        /\ \A i \in 0..(NumTriangles(rawMesh) - 1) :
              /\ Cardinality(FinalFaces(geometry, RawPositions(rawMesh, i))) = 1
              /\ \A f \in FinalFaces(geometry, RawPositions(rawMesh, i)) :
                     \E m \in 0..5 : GroupMaterials(geometry, f) = {m}

\* A finished build with entries that were all skipped: the mesh is the box.
C8_Witness ==
    /\ pc = "done" /\ Len(boolLog) = 0 /\ skipped = 2
    /\ Len(geometry.groups) = 6 /\ NumTriangles(rawMesh) = 12

\* C9: The draw groups of the returned mesh have strictly ascending
\* materialIndex, the first starts at 0, each next one starts where the one
\* before it ends, none is empty, and the last ends at the end of the index.
C9_GroupsPartitionIndex ==
    pc = "done" =>
        LET g == geometry.groups
            end(k) == g[k].start + g[k].count
        IN  /\ \A k \in 1..Len(g) : g[k].count > 0
            /\ \A k \in 1..(Len(g) - 1) :
                  /\ g[k].materialIndex < g[k + 1].materialIndex
                  /\ g[k + 1].start = end(k)
            /\ IF Len(g) = 0 THEN Len(geometry.index) = 0
               ELSE g[1].start = 0 /\ end(Len(g)) = 3 * Len(geometry.index)

\* A returned mesh with the six panel groups and two feature groups.
C9_Witness ==
    pc = "done" /\ Len(geometry.groups) = 8

\* A run of the mesh has a tag that is neither the panel's nor a CutRecord's.
HasForeignTag(mesh, cutMap, panelTag) ==
    \E r \in 1..Len(mesh.runOriginalID) :
        /\ mesh.runOriginalID[r] # panelTag
        /\ \A k \in 1..Len(cutMap) : cutMap[k].id # mesh.runOriginalID[r]

\* C10: When a triangle of the raw mesh carries a tag that is neither the
\* panel's tag nor the tag of a CutRecord, no mesh is returned.
C10_ForeignTagAbortsBuild ==
    pc = "done" => ~HasForeignTag(rawMesh, cutIDMap, detailOriginalID)

\* A mesh was returned for a raw mesh with a foreign tag, and it has fewer
\* triangles than the raw mesh: those of the foreign tag were left out.
C10_Witness ==
    /\ pc = "done" /\ HasForeignTag(rawMesh, cutIDMap, detailOriginalID)
    /\ Len(cutIDMap) = 2
    /\ Len(geometry.index) < NumTriangles(rawMesh)

\* A triangle of the mesh carries the panel's tag and its normal matches none
\* of the six axis directions within the tolerance, or cannot be normalised.
HasUnmatchedPanelTriangle(mesh, panelTag) ==
    \E i \in 0..(NumTriangles(mesh) - 1) :
        /\ RawTag(mesh, i) = panelTag
        /\ FaceSlot(TriNormal(mesh, i)) = undefined

\* C11: When a triangle with the panel's tag has a normal that matches none of
\* the six axis directions (or has zero area), the resolver reports a defect:
\* no mesh is returned in which the triangle is silently left out.
C11_UnmatchedPanelTriangleReported ==
    pc = "done" => ~HasUnmatchedPanelTriangle(rawMesh, detailOriginalID)

\* A mesh was returned for a raw mesh whose tags are all known and which has a
\* zero-area panel triangle: the triangle is in no draw group.
C11_Witness ==
    /\ pc = "done"
    /\ ~HasForeignTag(rawMesh, cutIDMap, detailOriginalID)
    /\ \E i \in 0..(NumTriangles(rawMesh) - 1) :
          /\ RawTag(rawMesh, i) = detailOriginalID
          /\ TriNormal(rawMesh, i) = <<0, 0, 0>>
    /\ Len(geometry.index) = NumTriangles(rawMesh) - 1

\* The vertices two triangles (from 0) of the input have in common.
SharedVertices(mesh, f, g) ==
    { mesh.triVerts[f + 1][k] : k \in 1..3 } \cap { mesh.triVerts[g + 1][k] : k \in 1..3 }

\* The island of the corner of triangle f at input vertex v: the faces whose
\* normals were summed for the output vertex of that corner.
IslandOf(mesh, geom, f, v) ==
    geom.normal[geom.index[f + 1][CHOOSE k \in 1..3 : mesh.triVerts[f + 1][k] = v] + 1]

\* The normals a and b have the same direction.
SameDirection(a, b) == Cross(a, b) = <<0, 0, 0>> /\ Dot(a, b) > 0

\* The islands A and B of faces of geom give the same averaged normal: they are
\* the same faces, or all their faces have one direction.
SameAveragedNormal(geom, A, B) ==
    \/ A = B
    \/ \A f, g \in A \cup B :
          SameDirection(FaceNormal(geom.position, geom.index, f),
                        FaceNormal(geom.position, geom.index, g))

\* C12: After computeNormals, for two triangles that share an edge: if their
\* face normals have the same direction, both corners at each shared vertex
\* have the same averaged normal; if their face normals are at exactly 90
\* degrees, neither is in the other's island at either shared vertex.
C12_CreaseThresholdExact ==
    (pc = "normals" /\ idx = 1) =>
        \A f, g \in 0..(NumTriangles(rawMesh) - 1) :
            (f # g /\ Cardinality(SharedVertices(rawMesh, f, g)) = 2) =>
                LET nf == FaceNormal(rawMesh.vertProperties, rawMesh.triVerts, f)
                    ng == FaceNormal(rawMesh.vertProperties, rawMesh.triVerts, g)
                IN  \A v \in SharedVertices(rawMesh, f, g) :
                        /\ SameDirection(nf, ng) =>
                              SameAveragedNormal(geometry,
                                                 IslandOf(rawMesh, geometry, f, v),
                                                 IslandOf(rawMesh, geometry, g, v))
                        /\ Dot(nf, ng) = 0 =>
                              g \notin IslandOf(rawMesh, geometry, f, v)

\* The whole fan, every edge of which has two faces: faces 0 and 1 meet at 90
\* degrees, and at the centre face 1 is in the island of face 0.
C12_Witness ==
    /\ pc = "normals" /\ idx = 1
    /\ rawMesh = NormalMesh(1..5)
    /\ Dot(FaceNormal(rawMesh.vertProperties, rawMesh.triVerts, 0),
           FaceNormal(rawMesh.vertProperties, rawMesh.triVerts, 1)) = 0
    /\ 1 \in IslandOf(rawMesh, geometry, 0, 0)

\* C13: Running computeNormals on the geometry it produced yields the same
\* positions, the same triangle indices and the same normals.
C13_NormalsIdempotent ==
    (pc = "normals" /\ idx = 1) =>
        LET again == computeNormals(geometry)
        IN  /\ again.position = geometry.position
            /\ again.index = geometry.index
            /\ Len(again.normal) = Len(geometry.normal)
            /\ \A k \in 1..Len(geometry.normal) :
                  SameAveragedNormal(geometry, again.normal[k], geometry.normal[k])

\* Two triangles of the fan that meet at less than 30 degrees: after the first
\* run the corners on their common edge average both faces, and a second run
\* gives each of these corners the normal of its own face alone.
C13_Witness ==
    /\ pc = "normals" /\ idx = 1
    /\ rawMesh = NormalMesh({2, 3})
    /\ geometry.normal[1] = {0, 1}
    /\ computeNormals(geometry).normal[1] = {0}
    /\ computeNormals(geometry).position = geometry.position

\* C14: when an apply operation has returned or thrown, every temporary kernel
\* object it created (each profile, the cutting solid, each copy returned by
\* translate, rotate, transform or asOriginal) has been released exactly once.
C14_TemporariesReleasedOnce ==
    outcome \in {"applied", "skipped", "threw"} =>
        \A i \in 1..Len(temporaries) : temporaries[i].released = 1

\* A hole was applied: its sealed cylinder was deleted, the cylinder
\* Manifold.cylinder returned and its transformed copy were not.
C14_Witness ==
    /\ outcome = "applied" /\ feature.fam = "holes"
    /\ Len(temporaries) = 3
    /\ temporaries[3].released = 1
    /\ temporaries[1].released = 0 /\ temporaries[2].released = 0

\* The kernel objects of the accumulated chain that were not released.
LiveChain == { i \in 1..Len(chain) : chain[i].released = 0 }

\* C15: the accumulated solid has at most one live kernel object at every step
\* (a boolean operation leaves the previous one released), and when build()
\* has returned no object of the chain is unreleased.
C15_OneLiveAccumulatedSolid ==
    /\ Cardinality(LiveChain) <= 1
    /\ pc = "done" => LiveChain = {}

\* build() returned after a feature was applied: the final solid was deleted,
\* the base box, the sealed base and the solid before the boolean were not.
C15_Witness ==
    /\ pc = "done" /\ Len(boolLog) > 0
    /\ chain[Len(chain)].released = 1
    /\ LiveChain = 1..(Len(chain) - 1)

\* C16: a step in which an apply operation returns the accumulated solid
\* unchanged has created no kernel object: no profile, no solid, and the
\* kernel's tag counter and the accumulated chain are as before.
C16_SkipAcquiresNothing ==
    [][/\ outcome' = "skipped" /\ entries' = entries + 1 =>
            /\ temporaries' = <<>>
            /\ nextID' = nextID
            /\ chain' = chain /\ detail' = detail
       \* an edge that is no object at all
       /\ pc = "edges" /\ idx \in 1..4 /\ outcome' = "none" =>
            /\ temporaries' = temporaries
            /\ nextID' = nextID
            /\ chain' = chain /\ detail' = detail]_vars

\* A rounded corner without a radius was skipped (the return of line 244, the
\* last one before the profile is made) after an earlier feature was applied.
C16_Witness ==
    /\ outcome = "skipped" /\ feature.fam = "corners"
    /\ feature.p.type = 1 /\ ~Truthy(feature.p.r)
    /\ Len(boolLog) > 0
    /\ temporaries = <<>>

\* C17: between the creation of the base solid and the return of the mesh,
\* build() is never suspended.
C17_NoSuspensionPoint ==
    chain # <<>> /\ pc # "done" => pc # "awaiting"

\* build() is suspended at the await of line 64 with an arc applied, and more
\* features are still to be applied.
C17_Witness ==
    /\ pc = "awaiting" /\ outcome = "applied" /\ feature.fam = "arcs"
    /\ Len(chain) = 3 /\ entries < MaxFeatures

\* C18: every call of build() that has returned resolved materials with the
\* CutRecords its own feature applications pushed and with the tag of its own
\* base solid, whatever other calls on the same DetailBuilder were in progress.
C18_EachCallResolvesItsOwn ==
    \A c \in DOMAIN calls :
        calls[c].pos = "done" =>
            /\ calls[c].resolvedList = calls[c].list
            /\ calls[c].resolvedTag = calls[c].panelTag

\* The first call applied an arc, was suspended, and returned after the second
\* call had begun: it resolved with the second call's array and panel tag.
C18_Witness ==
    /\ DOMAIN calls # {}
    /\ calls[1].pos = "done" /\ calls[2].pos \in {"awaiting", "done"}
    /\ calls[1].list # <<>>
    /\ calls[1].resolvedTag = calls[2].panelTag
    /\ calls[1].resolvedList # calls[1].list

\* C19: a hole on the front face (side 1) measured from the left and the lower
\* edge (x_axis "0", y_axis "0") gets a cylinder centred at
\* (-l/2 + x, -h/2 + y, w/2 - depth/2) with diameter diam; on the panel
\* 1000 x 600 x 18 the hole x = 35, y = 500, depth = 15, diam = 25 is centred at
\* (-465, 200, 1.5) with diameter 25.  (Centres are doubled; twice the radius
\* is the diameter.)
C19_FrontHoleCentreAndDiameter ==
    pc = "placed" /\ feature.fam = "holes" /\ feature.p.side = 1
        /\ feature.p.x_axis = "0" /\ feature.p.y_axis = "0" =>
            /\ cutter.centre2 = <<2 * feature.p.x - config.l, 2 * feature.p.y - config.h,
                                  config.w - feature.p.depth>>
            /\ cutter.radius2 = feature.p.diam
            /\ config = [l |-> 1000, h |-> 600, w |-> 18] /\ feature.p.y = 500
                    /\ feature.p.depth = 15 =>
                    cutter.centre2 = <<0 - 930, 400, 3>> /\ cutter.radius2 = 25

\* C19 as stated: on the panel 1000 x 600 x 18 the hole x = 35, y = 500,
\* depth = 15, diam = 25 on side 1 is centred at (-465, 200, 4.5).
C19_ExampleCentreAsStated ==
    pc = "placed" /\ feature.fam = "holes" /\ feature.p.side = 1
        /\ feature.p.x_axis = "0" /\ feature.p.y_axis = "0"
        /\ config = [l |-> 1000, h |-> 600, w |-> 18] /\ feature.p.y = 500
        /\ feature.p.depth = 15 =>
            cutter.centre2 = <<0 - 930, 400, 9>> /\ cutter.radius2 = 25

\* The hole of the example was placed.
C19_Witness ==
    /\ pc = "placed" /\ feature.fam = "holes"
    /\ config = [l |-> 1000, h |-> 600, w |-> 18]
    /\ feature.p = [side |-> 1, x |-> 35, y |-> 500, depth |-> 15, diam |-> 25,
                    x_axis |-> "0", y_axis |-> "0"]
    /\ cutter.centre2 = <<0 - 930, 400, 3>>

\* C20: the wedge of an edge bevel is as long as the edge plus 20 (h + 20 on
\* the left and right edges, which run along Y; l + 20 on the top and bottom
\* edges, which run along X; 620 for 'left' when h = 600), and the legs of its
\* profile are w and w / tan(|angle|) (the second in hundredths, rounded down).
C20_WedgeLengthAndLegs ==
    pc = "placed" /\ feature.fam = "edges" =>
        /\ EdgeNames[idx] \in {"left", "right"} =>
                cutter.wedgeLength = config.h + 20 /\ cutter.axis = "y"
        /\ EdgeNames[idx] \in {"top", "bottom"} =>
                cutter.wedgeLength = config.l + 20 /\ cutter.axis = "x"
        /\ EdgeNames[idx] = "left" /\ config.h = 600 => cutter.wedgeLength = 620
        /\ cutter.wedgeThickness = config.w
        /\ LET t == TanCenti(Abs(feature.p.degrees))
           IN  /\ cutter.wedgeDepthCenti * t <= 10000 * config.w
               /\ 10000 * config.w < (cutter.wedgeDepthCenti + 1) * t
        /\ Abs(feature.p.degrees) = 45 => cutter.wedgeDepthCenti = 100 * config.w

\* The left edge of the panel 1000 x 600 x 18 was bevelled at -30 degrees.
C20_Witness ==
    /\ pc = "placed" /\ feature.fam = "edges" /\ EdgeNames[idx] = "left"
    /\ config.h = 600 /\ feature.p.degrees = 0 - 30
    /\ cutter.wedgeLength = 620
    /\ cutter.wedgeDepthCenti = 3103

\* C21: the step of a family that is absent from the configuration or is an
\* empty list (build() passes from the family to the next one without having
\* read an entry; for the edges: the edges object is missing) performs no
\* boolean operation, appends no CutRecord and leaves the accumulated solid as
\* it was.
C21_EmptyFamilyIsNoOp ==
    [][(\/ pc \in {"smiles", "arcs", "holes", "rects", "corners"} /\ idx = 1
              /\ pc' = NextFamily(pc)
        \/ pc = "edges" /\ idx = 0 /\ pc' = "mesh") =>
            /\ cutIDMap' = cutIDMap /\ pushLog' = pushLog
            /\ boolLog' = boolLog
            /\ detail' = detail /\ chain' = chain /\ nextID' = nextID]_vars

\* build() reached the holes loop after a smile was applied and the arcs
\* family had no entry: the list holds the smile's record alone.
C21_Witness ==
    /\ pc = "holes" /\ idx = 1 /\ step = "idle"
    /\ feature.fam = "smiles" /\ outcome = "applied"
    /\ Len(cutIDMap) = 1 /\ Len(boolLog) = 1

\* The triangles (from 0) of the input that have both ends of the edge {u, v}.
IncidentTriangles(mesh, u, v) ==
    { f \in 0..(NumTriangles(mesh) - 1) :
        {u, v} \subseteq { mesh.triVerts[f + 1][k] : k \in 1..3 } }

\* The edge {u, v} of the input is sharp: it has one triangle, or two whose
\* face normals are at 30 degrees or more.
IsSharp(mesh, u, v) ==
    LET T == IncidentTriangles(mesh, u, v)
    IN  \/ Cardinality(T) = 1
        \/ /\ Cardinality(T) = 2
           /\ \E f, g \in T :
                /\ f # g
                /\ ThresholdAngleReached(
                       FaceNormal(mesh.vertProperties, mesh.triVerts, f),
                       FaceNormal(mesh.vertProperties, mesh.triVerts, g))

\* The triangles that contain v and are reached from those of S by crossing
\* smooth edges that end in v.
RECURSIVE ReachableAround(_, _, _)
ReachableAround(mesh, v, S) ==
    LET more == { g \in 0..(NumTriangles(mesh) - 1) \ S :
                    \E f \in S : \E u \in SharedVertices(mesh, f, g) \ {v} :
                        v \in SharedVertices(mesh, f, g) /\ ~IsSharp(mesh, u, v) }
    IN  IF more = {} THEN S ELSE ReachableAround(mesh, v, S \cup more)

\* C22: for every triangle t and vertex v of t, the triangles whose normals are
\* summed for the corner (t, v) are exactly those that contain v and are
\* reachable from t across smooth edges that end in v (sharp: one incident
\* triangle, or two at 30 degrees or more); t itself is among them.
C22_IslandIsSmoothReachableSet ==
    (pc = "normals" /\ idx = 1) =>
        \A t \in 0..(NumTriangles(rawMesh) - 1) :
            \A v \in { rawMesh.triVerts[t + 1][k] : k \in 1..3 } :
                /\ IslandOf(rawMesh, geometry, t, v) = ReachableAround(rawMesh, v, {t})
                /\ t \in IslandOf(rawMesh, geometry, t, v)

\* The whole fan: at its centre the island of face 0 holds all five faces,
\* the farthest of them two smooth edges away.
C22_Witness ==
    /\ pc = "normals" /\ idx = 1
    /\ rawMesh = NormalMesh(1..5)
    /\ IslandOf(rawMesh, geometry, 0, 0) = 0..4
    /\ IsSharp(rawMesh, 0, 2)

\* The output vertex of the corner of triangle f at input vertex v.
OutputVertexOf(mesh, geom, f, v) ==
    geom.index[f + 1][CHOOSE k \in 1..3 : mesh.triVerts[f + 1][k] = v]

\* The corners of the input: <<triangle, vertex>>.
Corners(mesh) ==
    { <<f, mesh.triVerts[f + 1][k]>> : f \in 0..(NumTriangles(mesh) - 1), k \in 1..3 }

\* C23: two corners at the same input vertex have the same output vertex if
\* and only if they belong to the same island, and the number of output
\* vertices is the number of distinct (vertex, island) pairs.
C23_OneVertexPerIsland ==
    (pc = "normals" /\ idx = 1) =>
        /\ \A c, d \in Corners(rawMesh) :
              c[2] = d[2] =>
                (OutputVertexOf(rawMesh, geometry, c[1], c[2])
                    = OutputVertexOf(rawMesh, geometry, d[1], d[2])
                 <=> IslandOf(rawMesh, geometry, c[1], c[2])
                        = IslandOf(rawMesh, geometry, d[1], d[2]))
        /\ Len(geometry.position) =
              Cardinality({ <<c[2], IslandOf(rawMesh, geometry, c[1], c[2])>> :
                              c \in Corners(rawMesh) })

\* Two coplanar triangles with a common edge: at a vertex of that edge both
\* corners are in one island, and each got an output vertex of its own.
C23_Witness ==
    /\ pc = "normals" /\ idx = 1
    /\ rawMesh = NormalMesh({6, 7})
    /\ IslandOf(rawMesh, geometry, 0, 6) = {0, 1}
    /\ IslandOf(rawMesh, geometry, 1, 6) = {0, 1}
    /\ OutputVertexOf(rawMesh, geometry, 0, 6) # OutputVertexOf(rawMesh, geometry, 1, 6)
    /\ Len(geometry.position) = 6

\* C24: an arch that was applied was combined by subtraction when its inner
\* flag is set and by add otherwise, by exactly one boolean operation, and
\* exactly one record of type 'arc' with the arch's tag was in the list when
\* that operation ran.
C24_ArchSubtractedOrAdded ==
    feature.fam = "arcs" /\ outcome = "applied" =>
        LET b == boolLog[Len(boolLog)]
        IN  /\ b.fam = "arcs"
            /\ b.op = IF feature.p.inner THEN "subtract" ELSE "add"
            /\ b.id \in b.recorded
            /\ \E i \in 1..Len(cutIDMap) :
                 /\ cutIDMap[i].id = b.id /\ cutIDMap[i].type = "arc"
                 /\ \A j \in 1..Len(cutIDMap) : cutIDMap[j].id = b.id => j = i
            /\ Cardinality({ k \in 1..Len(boolLog) :
                               boolLog[k].fam = "arcs" /\ boolLog[k].idx = b.idx }) = 1

\* An arch whose inner flag is not set was applied after another feature: it
\* was added.
C24_Witness ==
    /\ feature.fam = "arcs" /\ outcome = "applied" /\ ~feature.p.inner
    /\ Len(boolLog) = 2 /\ boolLog[2].op = "add"
    /\ Len(cutIDMap) = 2 /\ cutIDMap[2].type = "arc"

\* The geometry as createMaterials left it, before computeNormals.
GroupedGeometry == createMaterials(GeometryOf(rawMesh), rawMesh, cutIDMap, detailOriginalID)

\* C25: computeNormals keeps the triangle list: as many triangles as before,
\* triangle i with the positions it had, corner by corner; the draw groups are
\* the ones createMaterials made; there is one normal per output vertex and
\* every index is that of an output vertex.
C25_NormalsPreserveTriangles ==
    pc = "done" =>
        LET before == GroupedGeometry
        IN  /\ Len(geometry.index) = Len(before.index)
            /\ \A i \in 1..Len(before.index) : \A k \in 1..3 :
                  geometry.position[geometry.index[i][k] + 1]
                      = before.position[before.index[i][k] + 1]
            /\ geometry.groups = before.groups
            /\ Len(geometry.normal) = Len(geometry.position)
            /\ \A i \in 1..Len(geometry.index) : \A k \in 1..3 :
                  geometry.index[i][k] \in 0..(Len(geometry.position) - 1)

\* A build with two applied features ended: the mesh has more than one draw
\* group, and computeNormals made more vertices than the kernel's mesh had.
C25_Witness ==
    /\ pc = "done" /\ Len(cutIDMap) = 2
    /\ Len(geometry.groups) > 2
    /\ Len(geometry.position) > Len(rawMesh.vertProperties)
    /\ Len(geometry.index) = NumTriangles(rawMesh)

\* The triangles (from 0) of the input that contain vertex v.
TrianglesAt(mesh, v) ==
    { f \in 0..(NumTriangles(mesh) - 1) : \E k \in 1..3 : mesh.triVerts[f + 1][k] = v }

\* C26: around every vertex v the islands are consistent: for triangles A and B
\* at v, B is in the island of A if and only if A is in the island of B, and
\* then both islands are the same set (so both corners get the same normal);
\* the islands at v are made of triangles at v and cover them.
C26_IslandsPartitionVertexFan ==
    (pc = "normals" /\ idx = 1) =>
        \A v \in 0..(Len(rawMesh.vertProperties) - 1) :
            /\ \A A, B \in TrianglesAt(rawMesh, v) :
                  /\ B \in IslandOf(rawMesh, geometry, A, v)
                        <=> A \in IslandOf(rawMesh, geometry, B, v)
                  /\ B \in IslandOf(rawMesh, geometry, A, v) =>
                        IslandOf(rawMesh, geometry, A, v) = IslandOf(rawMesh, geometry, B, v)
            /\ UNION { IslandOf(rawMesh, geometry, A, v) : A \in TrianglesAt(rawMesh, v) }
                  = TrianglesAt(rawMesh, v)

\* Four triangles of the fan with its crease: at the centre there are two
\* islands, one of one triangle and one of three.
C26_Witness ==
    /\ pc = "normals" /\ idx = 1
    /\ rawMesh = NormalMesh(1..4)
    /\ { IslandOf(rawMesh, geometry, A, 0) : A \in TrianglesAt(rawMesh, 0) }
          = { {0}, {1, 2, 3} }

\* C27: every feature entry takes one material index whether it is applied or
\* skipped: the entry read as the j-th (from 0) of smiles, arcs, holes, rects,
\* corners is offered 6 + j; an edges object takes the next four indices for
\* left, right, top, bottom, whatever its entries are; an applied feature
\* carries the index it was offered.
C27_IndexPerEntry ==
    /\ [][/\ pc \in {"smiles", "arcs", "holes", "rects", "corners"}
                /\ entries' = entries + 1 =>
                    /\ currentMaterialIndex = FirstFeatureMaterialIndex + entries
                    /\ currentMaterialIndex' = currentMaterialIndex + 1
                    /\ outcome' = "applying" =>
                          cutter'.materialIndex = FirstFeatureMaterialIndex + entries
          /\ pc = "edges" /\ idx = 0 /\ pc' = "edges" =>
                    /\ \A k \in 1..4 :
                          edgeMaterialIndexMap'[EdgeNames[k]]
                              = FirstFeatureMaterialIndex + entries + (k - 1)
                    /\ currentMaterialIndex' = FirstFeatureMaterialIndex + entries + 4
          /\ pc = "edges" /\ idx \in 1..4 /\ outcome' = "applying" =>
                    cutter'.materialIndex = edgeMaterialIndexMap[EdgeNames[idx]]]_vars
    /\ [](pc = "edges" /\ idx \in 1..4 =>
            currentMaterialIndex = edgeMaterialIndexMap.left + 4)

\* A hole was applied after a skipped entry: its record carries index 7.
C27_Witness ==
    /\ feature.fam = "holes" /\ outcome = "applied"
    /\ entries = 2 /\ skipped = 1
    /\ Len(cutIDMap) = 1 /\ cutIDMap[1].materialIndex = 7

(***************************************************************************)
(* C28: the material table and the draw groups                             *)
(***************************************************************************)
\* C28: when build() has returned, the material table handed to the mesh holds
\* a material at the materialIndex of every draw group of the geometry,
\* whatever the configuration: also when a feature names no material and when
\* the configuration has no materials3D.
C28_EveryGroupHasMaterial ==
    pc = "done" =>
        \A g \in 1..Len(geometry.groups) : geometry.groups[g].materialIndex \in materials

\* A finished build of a configuration without materials3D (or of a bare
\* table): the geometry has its draw groups and the table is empty.
C28_Witness ==
    /\ pc = "done"
    /\ Len(geometry.groups) >= 6
    /\ materials = {}

(***************************************************************************)
(* The viewer script: buildDetail() and the GUI handlers that call it.     *)
(* buildDetail is an async function: it runs to its `await builder.build()`*)
(* without interruption and is resumed when the promise of build() is      *)
(* settled; a GUI event that arrives in between starts another call.       *)
(* Every call builds the script's fixed configuration with a DetailBuilder *)
(* of its own, and build() answers with a new mesh.                        *)
(***************************************************************************)
\* How many times buildDetail() is called: once by the script, then by handlers.
MaxRebuilds == 3

\* The THREE.Mesh that the build() of call c returned, and the LineSegments
\* that meshToLine made of it.
DetailMesh(c) == [kind |-> "mesh", by |-> c]
WireframeLine(c) == [kind |-> "line", by |-> c]

InitViewer ==
    /\ config = PanelDims
    /\ pc = "viewing"
    /\ idx = 0
    /\ feature = NoFeature
    /\ outcome = "none"
    /\ step = "idle"
    /\ cutter = NoCutter
    /\ detail = [tags |-> {}]
    /\ detailOriginalID = undefined
    /\ cutIDMap = <<>>
    /\ currentMaterialIndex = 0
    /\ edgeMaterialIndexMap = <<>>
    /\ nextID = 1
    /\ rawMesh = NoMesh
    /\ geometry = NoGeometry
    /\ materials = {}
    /\ entries = 0
    /\ skipped = 0
    /\ pushLog = <<>>
    /\ boolLog = <<>>
    /\ temporaries = <<>>
    /\ chain = <<>>
    /\ calls = <<>>
    /\ thisCutIDMap = 0
    /\ viewer = [NoViewer EXCEPT !.pos = [c \in 1..MaxRebuilds |-> "idle"]]

\* buildDetail(), lines 686-706: the mesh and the line that the globals refer
\* to are removed from the scene and disposed of; the globals keep referring
\* to them.  Then build() is called and the call is suspended.  Call 1 is the
\* one the script makes (line 717); a later call comes from a handler: of a
\* dimension (lines 731-738), or of the checkbox, whose value the GUI has
\* changed before (line 742).
CallBuildDetail(c) ==
    /\ viewer.pos[c] = "idle"
    /\ \A b \in 1..(c - 1) : viewer.pos[b] # "idle"
    /\ \E checkbox \in (IF c = 1 THEN {FALSE} ELSE BOOLEAN) :
        LET old == (IF viewer.detail # 0 THEN <<DetailMesh(viewer.detail)>> ELSE <<>>)
                   \o (IF viewer.wireframe # 0 THEN <<WireframeLine(viewer.wireframe)>>
                       ELSE <<>>)
        IN  viewer' = [viewer EXCEPT
                          !.scene = @ \ { old[i] : i \in 1..Len(old) },
                          !.disposed = @ \o old,
                          !.showWireframe = IF checkbox THEN ~@ ELSE @,
                          !.pos[c] = "awaiting"]
    /\ UNCHANGED <<config, pc, idx, feature, outcome, step, cutter, detail,
                   detailOriginalID, cutIDMap, currentMaterialIndex,
                   edgeMaterialIndexMap, nextID, rawMesh, geometry, materials,
                   entries, skipped, pushLog, boolLog, temporaries, chain, calls,
                   thisCutIDMap>>

\* buildDetail(), lines 707-714: the continuation after the await.  The mesh
\* is stored in `detail` and added to the scene; with params.showWireframe, as
\* it is now, its line is stored in `wireframe` and added.
ResumeBuildDetail(c) ==
    /\ viewer.pos[c] = "awaiting"
    /\ viewer' = [viewer EXCEPT
                     !.detail = c,
                     !.wireframe = IF viewer.showWireframe THEN c ELSE @,
                     !.scene = @ \cup {DetailMesh(c)}
                                 \cup (IF viewer.showWireframe THEN {WireframeLine(c)}
                                       ELSE {}),
                     !.pos[c] = "returned"]
    /\ UNCHANGED <<config, pc, idx, feature, outcome, step, cutter, detail,
                   detailOriginalID, cutIDMap, currentMaterialIndex,
                   edgeMaterialIndexMap, nextID, rawMesh, geometry, materials,
                   entries, skipped, pushLog, boolLog, temporaries, chain, calls,
                   thisCutIDMap>>

NextViewer ==
    \E c \in 1..MaxRebuilds :
        \/ CallBuildDetail(c)
        \/ ResumeBuildDetail(c)

SpecViewer == InitViewer /\ [][NextViewer]_vars

\* The objects that were disposed of.
Disposed == { viewer.disposed[i] : i \in 1..Len(viewer.disposed) }

\* The detail meshes in the scene.
SceneDetails == { o \in viewer.scene : o.kind = "mesh" }

\* C29: in the viewer, whatever the order of the rebuild triggers and of the
\* answers of build(), the scene never holds more than one detail mesh, and
\* when a call of buildDetail adds its mesh, every mesh added by an earlier
\* call has left the scene and was disposed of.
C29_AtMostOneDetailInScene ==
    /\ [](Cardinality(SceneDetails) <= 1)
    /\ [][\A c \in 1..MaxRebuilds :
            viewer.pos[c] = "awaiting" /\ viewer'.pos[c] = "returned" =>
                \A b \in 1..MaxRebuilds :
                    b # c /\ viewer.pos[b] = "returned" =>
                        /\ DetailMesh(b) \notin viewer'.scene
                        /\ DetailMesh(b) \in Disposed']_vars

\* Two calls of buildDetail were suspended at the same time and both have
\* returned: the scene holds the meshes of both, and the first was never
\* disposed of.
C29_Witness ==
    /\ viewer.pos[1] = "returned" /\ viewer.pos[2] = "returned"
    /\ {DetailMesh(1), DetailMesh(2)} \subseteq viewer.scene
    /\ DetailMesh(1) \notin Disposed

(***************************************************************************)
(* C30: the extent of a cutting solid along the normal of its face         *)
(***************************************************************************)
\* The doubled coordinate of the face `side` on its normal, and the sign of
\* the outward normal (the panel is centred: its faces are at +-l/2, +-h/2,
\* +-w/2).
FacePlane2(c, side) ==
    CASE side = 1 -> c.w  [] side = 2 -> 0 - c.w
      [] side = 3 -> 0 - c.l  [] side = 4 -> c.l
      [] side = 5 -> c.h  [] side = 6 -> 0 - c.h

Outward(side) == IF side \in {1, 4, 5} THEN 1 ELSE 0 - 1

\* The doubled coordinates of the two ends of the placed solid on its axis:
\* the end on the side of the face, and the end inside the panel.
AxisIndex(axis) == CASE axis = "x" -> 1 [] axis = "y" -> 2 [] axis = "z" -> 3

OuterEnd2(s, side) == s.centre2[AxisIndex(s.axis)] + Outward(side) * s.height

InnerEnd2(s, side) == s.centre2[AxisIndex(s.axis)] - Outward(side) * s.height

\* A hole, or a rect that is not full-depth, of depth d: the solid is d + 2
\* long on the normal of its face, centred d/2 inside the face, and so reaches
\* from 1 outside the face to d + 1 inside.
BlindCutSpan ==
    pc = "placed" /\ feature.fam \in {"holes", "rects"}
    /\ (feature.fam = "rects" => ~feature.p.fullDepth) =>
        LET side == feature.p.side
            d == feature.p.depth
            face2 == FacePlane2(config, side)
        IN  /\ cutter.height = d + 2
            /\ cutter.centre2[AxisIndex(cutter.axis)] = face2 - Outward(side) * d
            /\ OuterEnd2(cutter, side) = face2 + Outward(side) * 2
            /\ InnerEnd2(cutter, side) = face2 - Outward(side) * 2 * (d + 1)

\* A full-depth rect: the solid reaches 1 beyond the face and 1 beyond the
\* opposite face.
FullDepthCutSpan ==
    pc = "placed" /\ feature.fam = "rects" /\ feature.p.fullDepth =>
        LET side == feature.p.side
            face2 == FacePlane2(config, side)
        IN  /\ OuterEnd2(cutter, side) = face2 + Outward(side) * 2
            /\ InnerEnd2(cutter, side) = 0 - face2 - Outward(side) * 2

\* C30: for a hole or a non-full-depth rect of nominal depth d on a face, the
\* cutting solid is d + 2 long along the face normal and centred d/2 inside
\* the face, so it spans from 1 outside the face to d + 1 inside the panel; a
\* full-depth rect spans 1 beyond both opposite faces of the panel.
C30_CutterSpanAlongNormal ==
    BlindCutSpan /\ FullDepthCutSpan

\* A full-depth rect placed on the left face of the 1000 x 600 x 18 panel: its
\* box ends 19 inside the left face, far from the right face.
C30_Witness ==
    /\ pc = "placed" /\ feature.fam = "rects" /\ feature.p.fullDepth
    /\ feature.p.side = 3 /\ config.l = 1000 /\ config.w = 18
    /\ OuterEnd2(cutter, 3) = 0 - 1002
    /\ InnerEnd2(cutter, 3) = 0 - 1000 + 38

====
